---- MODULE Spec2Model ----
(***************************************************************************)
(* Model of the pooled allocator MemoryManager of src/ram.py: size-classed *)
(* pools of pre-created blocks, allocate/deallocate, the idle-timeout      *)
(* garbage collector and the defragmenter.                                 *)
(*                                                                         *)
(* Representation:                                                         *)
(*  - a block is a record; `uid` stands for the identity of the Python     *)
(*    dict object, `id` for its 'id' string "block_<size>_<n>", kept as    *)
(*    the pair <<size, n>>;                                                *)
(*  - None is -1 for timestamps, "none" for a missing 'priority' key and   *)
(*    <<0, 0>> for a missing block id;                                     *)
(*  - time.time() is the variable `now`, advanced by the Tick action; one  *)
(*    call of an operation reads one value of the clock;                   *)
(*  - floats that are ratios (memory_pressure, gc_threshold) are pairs     *)
(*    <<numerator, denominator>> compared by cross-multiplication.         *)
(***************************************************************************)
EXTENDS Integers, Sequences, FiniteSets, TLC

(* ---------------------------- bounds ---------------------------------- *)
\* number of size classes taken from the head of the ladder 1,2,4,...
NumClasses == 2
\* blocks pre-created per class
BlockCount == 2
\* how many distinct random numbers an id may draw (randint range, shrunk)
NumIds == 2
\* cap on successful allocations (total_allocations, ledger length)
MaxAllocs == 3
\* the same cap for a burst of calls made while the clock stands still
MaxBurstAllocs == 4
\* the same cap when the pressure is fed by the telemetry hook
MaxStatsAllocs == 2
\* how many calls the concurrent threads make, all together
MaxThreadCalls == 3
\* maxlen of the deques usage_history and load_averages (2000 and 200 in the
\* source, shrunk)
MaxSamples == 4

(* --------------------------- constants -------------------------------- *)
None == -1
NoneId == <<0, 0>>
NoPriority == "none"
IdBase == 1000
total_mb == 16
gc_threshold == <<7, 10>>

\* the number of entries of pool_sizes = [1, 2, 4, ..., 512], and the size
\* classes MemoryManager configures
LadderLength == 10

\* pool_sizes = [1, 2, 4, 8, ..., 512] (KB), ascending; a manager of the
\* model has the pools of a head of this ladder
pool_sizes == [i \in 1..LadderLength |-> 2^(i-1)]

\* how many pools there are: the classes of `pools` are the first
\* NumPools(pools) entries of pool_sizes, which is the order of
\* self.memory_pools.items() and of sorted(self.memory_pools.keys())
NumPools(pools) == Cardinality(DOMAIN pools)

PoolSizeSet == {pool_sizes[i] : i \in 1..NumClasses}

Largest == pool_sizes[NumClasses]

\* block_count = 50 if size <= 16 else 25 if size <= 64 else 10, scaled down
block_count(size) ==
    IF size <= 16 THEN BlockCount
    ELSE IF size <= 64 THEN BlockCount
    ELSE BlockCount

\* timeout = 180 if pool_size <= 512 else 300
timeout(pool_size) == IF pool_size <= 512 THEN 180 ELSE 300

\* the size classes MemoryManager configures
ConfiguredClasses == {2^(i-1) : i \in 1..LadderLength}

IdNumbers == IdBase..(IdBase + NumIds - 1)

\* the requested sizes tried: the two smallest classes, a size that is no
\* class size, and a size above the largest class
Sizes == {1, 2, 3, Largest + 1}

\* the priority a caller passes ("high" is what the defragmenter passes)
Priorities == {"normal"}

\* the values of the clock at which calls are made: two allocation times one
\* second apart, and the first time at which a block allocated at 0 is idle
\* for longer than the timeout
ClockValues == {0, 1, timeout(1) + 1}

\* the ids a caller may pass to deallocate_memory: every id a block can
\* carry, and one id of a class that does not exist
CallerIds == (PoolSizeSet \X IdNumbers) \cup {<<3, IdBase>>}

VARIABLES memory_pools, allocation_history, memory_stats, memory_pressure,
          last_gc_time, now, last, threads, probe, monitor

vars == <<memory_pools, allocation_history, memory_stats, memory_pressure,
          last_gc_time, now, last, threads, probe, monitor>>

\* what the calls of the single caller leave alone: the concurrent callers,
\* the function evaluations and the monitoring thread of the CPU manager
aside == <<threads, probe, monitor>>

(* ------------------------- helper operators --------------------------- *)
Min(S) == CHOOSE x \in S : \A y \in S : x <= y

\* a > b for ratios <<num, den>> with positive denominators
RatGT(a, b) == a[1] * b[2] > b[1] * a[2]

\* s without its i-th element: list.pop(i)
RemoveAt(s, i) == SubSeq(s, 1, i - 1) \o SubSeq(s, i + 1, Len(s))

\* mutant of NewBlock: the block records one KB, not the size of its class
NewBlockUnit(size, k, n) ==
    [uid |-> <<size, k>>, id |-> <<size, n>>, size |-> 1,
     allocated_at |-> None, last_access |-> None, priority |-> NoPriority]

\* the block created as the k-th block of the class `size`, with random n
NewBlock(size, k, n) ==
    [uid |-> <<size, k>>, id |-> <<size, n>>, size |-> size,
     allocated_at |-> None, last_access |-> None, priority |-> NoPriority]

\* the part of the manager that allocate/deallocate work on
Manager == [memory_pools |-> memory_pools,
            allocation_history |-> allocation_history,
            memory_stats |-> memory_stats]

\* the result of a call that is not the one `last` describes
NoReport == [allocation_patterns |-> {}, predicted_usage |-> 0,
             fragmentation_trend |-> "", memory_efficiency |-> 0,
             gc_recommendation |-> ""]

\* the result of a call that is not the one `last` describes; for a
\* garbage_collect call, retry_size is the size of the failed allocation
\* the call directly follows (0 when it follows none), defrag_invoked tells
\* whether _defragment_memory was called and defrag_count what it returned
NoCall == [op |-> "init", size |-> 0, priority |-> NoPriority,
           block_id |-> NoneId, ret_id |-> NoneId, ret_bool |-> FALSE,
           ret_count |-> 0, raised |-> FALSE, retry_size |-> 0,
           defrag_invoked |-> FALSE, defrag_count |-> 0,
           report |-> NoReport, map |-> {}]

\* the size of the request when `call` is an allocate_memory call that
\* returned None, 0 otherwise
FailedSize(call) ==
    IF call.op = "allocate" /\ call.ret_id = NoneId THEN call.size ELSE 0

(* ------------------------- allocate_memory ---------------------------- *)
\* mutant of FittingPools: the size test is dropped
FittingPoolsAnySize(pools, size) ==
    {k \in 1..NumPools(pools) : Len(pools[pool_sizes[k]].available) > 0}

\* mutant of FittingPools: only the smallest class >= size is considered
FittingPoolsSmallestOnly(pools, size) ==
    {k \in 1..NumPools(pools) :
        /\ pool_sizes[k] >= size /\ Len(pools[pool_sizes[k]].available) > 0
        /\ \A j \in 1..NumPools(pools) : pool_sizes[j] >= size => j >= k}

\* indexes of the classes that fit `size` and have a free block:
\* pool_size >= size and self.memory_pools[pool_size]['available']
FittingPools(pools, size) ==
    {k \in 1..NumPools(pools) :
        pool_sizes[k] >= size /\ Len(pools[pool_sizes[k]].available) > 0}

\* mutant of TakeBlock: the block is stamped and appended to `allocated`
\* but not popped from `available`
TakeBlockKept(pool, priority, t) ==
    LET popped == pool.available[Len(pool.available)]
        block  == [popped EXCEPT !.allocated_at = t, !.last_access = t,
                                 !.priority = priority]
    IN [pool EXCEPT
          !.allocated = Append(pool.allocated, block),
          !.used_blocks = pool.used_blocks + 1]

\* mutant of TakeBlock: used_blocks is not incremented
TakeBlockUncounted(pool, priority, t) ==
    LET popped == pool.available[Len(pool.available)]
        block  == [popped EXCEPT !.allocated_at = t, !.last_access = t,
                                 !.priority = priority]
    IN [pool EXCEPT
          !.available = SubSeq(pool.available, 1, Len(pool.available) - 1),
          !.allocated = Append(pool.allocated, block)]

\* mutant of TakeBlock: the first free block is taken
TakeBlockFifo(pool, priority, t) ==
    LET popped == pool.available[1]
        block  == [popped EXCEPT !.allocated_at = t, !.last_access = t,
                                 !.priority = priority]
    IN [pool EXCEPT
          !.available = SubSeq(pool.available, 2, Len(pool.available)),
          !.allocated = Append(pool.allocated, block),
          !.used_blocks = pool.used_blocks + 1]

\* the pool after its last free block was popped, stamped and appended to
\* `allocated`
TakeBlock(pool, priority, t) ==
    LET popped == pool.available[Len(pool.available)]
        block  == [popped EXCEPT !.allocated_at = t, !.last_access = t,
                                 !.priority = priority]
    IN [pool EXCEPT
          !.available = SubSeq(pool.available, 1, Len(pool.available) - 1),
          !.allocated = Append(pool.allocated, block),
          !.used_blocks = pool.used_blocks + 1]

\* mutant of HistoryRecord: the size of the block's class is recorded
\* instead of the requested size
HistoryRecordClassSize(block, size, priority) ==
    [block_id |-> block.id, size |-> block.size,
     allocated_at |-> block.allocated_at, priority |-> priority]

\* the record appended to allocation_history for `block`
HistoryRecord(block, size, priority) ==
    [block_id |-> block.id, size |-> size,
     allocated_at |-> block.allocated_at, priority |-> priority]

\* mutant of OutOfMemory: the failed call is counted as an allocation
OutOfMemoryCounted(m) ==
    [m |-> [m EXCEPT !.memory_stats.total_allocations =
                         m.memory_stats.total_allocations + 1],
     ret |-> NoneId]

\* `return None` when best_pool_size is None
OutOfMemory(m) == [m |-> m, ret |-> NoneId]

\* allocate_memory(size, priority) at clock value t: the new manager state
\* and the returned id (NoneId for None)
AllocateOp(m, size, priority, t) ==
    LET fit == FittingPools(m.memory_pools, size) IN
    IF fit = {} THEN OutOfMemory(m)
    ELSE
      LET best_pool_size == pool_sizes[Min(fit)]
          pool2 == TakeBlock(m.memory_pools[best_pool_size], priority, t)
          block == pool2.allocated[Len(pool2.allocated)]
      IN [m |-> [memory_pools |-> [m.memory_pools EXCEPT ![best_pool_size] = pool2],
                 allocation_history |->
                     Append(m.allocation_history, HistoryRecord(block, size, priority)),
                 memory_stats |-> [m.memory_stats EXCEPT
                                     !.total_allocations = m.memory_stats.total_allocations + 1]],
          ret |-> block.id]

(* ------------------------ deallocate_memory --------------------------- *)
\* positions in pool.allocated of the blocks carrying block_id
MatchIdx(pool, block_id) ==
    {i \in 1..Len(pool.allocated) : pool.allocated[i].id = block_id}

\* mutant of ReturnBlock: the block is removed from `allocated` but not
\* appended to `available`
ReturnBlockLost(pool, i) ==
    [pool EXCEPT !.allocated = RemoveAt(pool.allocated, i),
                 !.used_blocks = pool.used_blocks - 1]

\* mutant of ReturnBlock: last_access is not cleared
ReturnBlockStale(pool, i) ==
    LET block == [pool.allocated[i] EXCEPT !.allocated_at = None]
    IN [pool EXCEPT
          !.available = Append(pool.available, block),
          !.allocated = RemoveAt(pool.allocated, i),
          !.used_blocks = pool.used_blocks - 1]

\* mutant of ReturnBlock: the size of the block is cleared with its stamps
ReturnBlockUnsized(pool, i) ==
    LET block == [pool.allocated[i] EXCEPT !.allocated_at = None,
                                           !.last_access = None,
                                           !.size = 0]
    IN [pool EXCEPT
          !.available = Append(pool.available, block),
          !.allocated = RemoveAt(pool.allocated, i),
          !.used_blocks = pool.used_blocks - 1]

\* the pool after its i-th allocated block was cleared and given back
ReturnBlock(pool, i) ==
    LET block == [pool.allocated[i] EXCEPT !.allocated_at = None,
                                           !.last_access = None]
    IN [pool EXCEPT
          !.available = Append(pool.available, block),
          !.allocated = RemoveAt(pool.allocated, i),
          !.used_blocks = pool.used_blocks - 1]

\* mutant of DeallocateOp: the ledger record of the latest allocation is
\* dropped when a block is given back
DeallocateOpForget(m, block_id) ==
    LET hit == {k \in 1..NumPools(m.memory_pools) :
                   MatchIdx(m.memory_pools[pool_sizes[k]], block_id) # {}} IN
    IF hit = {} THEN [m |-> m, ret |-> FALSE]
    ELSE
      LET pool_size == pool_sizes[Min(hit)]
          pool  == m.memory_pools[pool_size]
          i     == Min(MatchIdx(pool, block_id))
      IN [m |-> [m EXCEPT !.memory_pools[pool_size] = ReturnBlock(pool, i),
                          !.allocation_history =
                              SubSeq(@, 1, Len(m.allocation_history) - 1),
                          !.memory_stats.total_deallocations =
                              m.memory_stats.total_deallocations + 1],
          ret |-> TRUE]

\* mutant of DeallocateOp: the last match in list order is freed
DeallocateOpLatest(m, block_id) ==
    LET hit == {k \in 1..NumPools(m.memory_pools) :
                   MatchIdx(m.memory_pools[pool_sizes[k]], block_id) # {}} IN
    IF hit = {} THEN [m |-> m, ret |-> FALSE]
    ELSE
      LET pool_size == pool_sizes[Min(hit)]
          pool  == m.memory_pools[pool_size]
          i     == CHOOSE x \in MatchIdx(pool, block_id) :
                      \A y \in MatchIdx(pool, block_id) : y <= x
      IN [m |-> [m EXCEPT !.memory_pools[pool_size] = ReturnBlock(pool, i),
                          !.memory_stats.total_deallocations =
                              m.memory_stats.total_deallocations + 1],
          ret |-> TRUE]

\* deallocate_memory(block_id): the first match in pool order, then in list
\* order, goes back to `available`; ret is the returned bool
DeallocateOp(m, block_id) ==
    LET hit == {k \in 1..NumPools(m.memory_pools) :
                   MatchIdx(m.memory_pools[pool_sizes[k]], block_id) # {}} IN
    IF hit = {} THEN [m |-> m, ret |-> FALSE]
    ELSE
      LET pool_size == pool_sizes[Min(hit)]
          pool  == m.memory_pools[pool_size]
          i     == Min(MatchIdx(pool, block_id))
      IN [m |-> [m EXCEPT !.memory_pools[pool_size] = ReturnBlock(pool, i),
                          !.memory_stats.total_deallocations =
                              m.memory_stats.total_deallocations + 1],
          ret |-> TRUE]

(* ----------------------- _defragment_memory --------------------------- *)
\* block['size'] < pool_size * 0.5
UnderUtilized(block, pool_size) == 2 * block.size < pool_size

\* smaller_size < pool_size and smaller_size >= block['size'], with a free block
SmallerFit(m, smaller_size, pool_size, block) ==
    /\ smaller_size < pool_size
    /\ smaller_size >= block.size
    /\ Len(m.memory_pools[smaller_size].available) > 0

\* the loop over sorted(self.memory_pools.keys()) for one block: after[k] is
\* the state after the k-th class; the first smaller class with room ends
\* the loop (`done`) once the block has been deallocated; `moved` is what
\* the block adds to the count
MoveToSmaller(m, pool_size, block, t) ==
    LET after[k \in 0..NumPools(m.memory_pools)] ==
          IF k = 0 THEN [m |-> m, moved |-> 0, done |-> FALSE]
          ELSE LET prev == after[k - 1] IN
               IF prev.done \/ ~SmallerFit(prev.m, pool_sizes[k], pool_size, block)
               THEN prev
               ELSE LET d == DeallocateOp(prev.m, block.id) IN
                    IF d.ret
                    THEN LET a == AllocateOp(d.m, block.size, "high", t) IN
                         [m |-> a.m,
                          moved |-> IF a.ret # NoneId THEN 1 ELSE 0,
                          done |-> TRUE]
                    ELSE prev
    IN [m |-> after[NumPools(m.memory_pools)].m, moved |-> after[NumPools(m.memory_pools)].moved]

\* mutant of DefragBlock: the replacement is allocated without the
\* utilisation test and without freeing the block
DefragBlockCopy(m, pool_size, block, t) ==
    LET a == AllocateOp(m, block.size, "high", t) IN
    [m |-> a.m, moved |-> IF a.ret # NoneId THEN 1 ELSE 0]

\* the body of the loop over pool['allocated'][:] for one block
DefragBlock(m, pool_size, block, t) ==
    IF UnderUtilized(block, pool_size)
    THEN MoveToSmaller(m, pool_size, block, t)
    ELSE [m |-> m, moved |-> 0]

\* the loop over the copy `snapshot` of pool['allocated']: after[i] is the
\* state after its i-th block
DefragBlocks(m, pool_size, snapshot, t) ==
    LET after[i \in 0..Len(snapshot)] ==
          IF i = 0 THEN [m |-> m, moved |-> 0]
          ELSE LET prev == after[i - 1]
                   b == DefragBlock(prev.m, pool_size, snapshot[i], t)
               IN [m |-> b.m, moved |-> prev.moved + b.moved]
    IN after[Len(snapshot)]

\* the loop over self.memory_pools.items(): after[k] is the state after the
\* k-th class
DefragPools(m, t) ==
    LET after[k \in 0..NumPools(m.memory_pools)] ==
          IF k = 0 THEN [m |-> m, moved |-> 0]
          ELSE LET prev == after[k - 1]
                   pool_size == pool_sizes[k]
                   b == DefragBlocks(prev.m, pool_size,
                                     prev.m.memory_pools[pool_size].allocated, t)
               IN [m |-> b.m, moved |-> prev.moved + b.moved]
    IN after[NumPools(m.memory_pools)]

\* `return defragmented_blocks`
DefragReturn(r) == [m |-> r.m, ret |-> r.moved]

\* _defragment_memory(): the new manager state and defragmented_blocks
DefragmentOp(m, t) == DefragReturn(DefragPools(m, t))

(* -------------------------- garbage_collect --------------------------- *)
\* the block object `uid` as it is now, in either list of its pool
LiveBlock(m, pool_size, uid) ==
    LET pool == m.memory_pools[pool_size]
        all  == pool.available \o pool.allocated
    IN all[CHOOSE i \in 1..Len(all) : all[i].uid = uid]

\* mutant of Expired: a block idle for exactly the timeout is reclaimed
ExpiredInclusive(block, pool_size, current_time) ==
    (current_time - block.last_access) >= timeout(pool_size)

\* mutant of Expired: the two tiers of the timeout are swapped
ExpiredLongTier(block, pool_size, current_time) ==
    (current_time - block.last_access) > (IF pool_size <= 512 THEN 300 ELSE 180)

\* (current_time - block['last_access']) > timeout
Expired(block, pool_size, current_time) ==
    (current_time - block.last_access) > timeout(pool_size)

\* mutant of ScanBlocks: the loop runs over pool['allocated'] itself, not
\* over a copy, so a removal shifts the blocks under the loop index
ScanBlocksLive(m, pool_size, snapshot, current_time) ==
    LET after[i \in 0..Len(snapshot)] ==
          IF i = 0 THEN [m |-> m, collected |-> 0, raised |-> FALSE]
          ELSE LET prev == after[i - 1] IN
               IF prev.raised \/ i > Len(prev.m.memory_pools[pool_size].allocated)
               THEN prev
               ELSE LET block == prev.m.memory_pools[pool_size].allocated[i] IN
                    IF block.last_access = None
                    THEN [prev EXCEPT !.raised = TRUE]
                    ELSE IF Expired(block, pool_size, current_time)
                    THEN LET d == DeallocateOp(prev.m, block.id) IN
                         [m |-> d.m,
                          collected |-> prev.collected + (IF d.ret THEN 1 ELSE 0),
                          raised |-> FALSE]
                    ELSE prev
    IN after[Len(snapshot)]

\* the loop over the copy `snapshot` of pool['allocated']: after[i] is the
\* state after its i-th block; `raised` when block['last_access'] is None at
\* the subtraction, which ends the call
ScanBlocks(m, pool_size, snapshot, current_time) ==
    LET after[i \in 0..Len(snapshot)] ==
          IF i = 0 THEN [m |-> m, collected |-> 0, raised |-> FALSE]
          ELSE LET prev == after[i - 1] IN
               IF prev.raised THEN prev
               ELSE LET block == LiveBlock(prev.m, pool_size, snapshot[i].uid) IN
                    IF block.last_access = None
                    THEN [prev EXCEPT !.raised = TRUE]
                    ELSE IF Expired(block, pool_size, current_time)
                    THEN LET d == DeallocateOp(prev.m, block.id) IN
                         [m |-> d.m,
                          collected |-> prev.collected + (IF d.ret THEN 1 ELSE 0),
                          raised |-> FALSE]
                    ELSE prev
    IN after[Len(snapshot)]

\* the loop over self.memory_pools.items(): after[k] is the state after the
\* k-th class
ScanPools(m, current_time) ==
    LET after[k \in 0..NumPools(m.memory_pools)] ==
          IF k = 0 THEN [m |-> m, collected |-> 0, raised |-> FALSE]
          ELSE LET prev == after[k - 1] IN
               IF prev.raised THEN prev
               ELSE LET pool_size == pool_sizes[k]
                        b == ScanBlocks(prev.m, pool_size,
                                        prev.m.memory_pools[pool_size].allocated,
                                        current_time)
                    IN [m |-> b.m, collected |-> prev.collected + b.collected,
                        raised |-> b.raised]
    IN after[NumPools(m.memory_pools)]

\* mutant of DefragDue: the defragmenter also runs at the threshold
DefragDueInclusive(pressure) == ~RatGT(gc_threshold, pressure)

\* if self.memory_pressure > self.gc_threshold
DefragDue(pressure) == RatGT(pressure, gc_threshold)

\* the report of a cycle whose idle scan `scan` was followed by the
\* defragmenter run `d`
WithDefrag(scan, d, t) ==
    [m |-> d.m, collected |-> scan.collected + d.ret, defrag |-> TRUE,
     invoked |-> TRUE, defrag_count |-> d.ret,
     raised |-> FALSE, last_gc_time |-> t]

\* the rest of garbage_collect() after the idle scan `scan`: the
\* defragmenter when due, and the report
AfterScan(scan, pressure, old_gc, t) ==
    IF scan.raised
    THEN [m |-> scan.m, collected |-> 0, defrag |-> FALSE,
          invoked |-> FALSE, defrag_count |-> 0, raised |-> TRUE,
          last_gc_time |-> old_gc]
    ELSE IF DefragDue(pressure)
    THEN WithDefrag(scan, DefragmentOp(scan.m, t), t)
    ELSE [m |-> scan.m, collected |-> scan.collected, defrag |-> FALSE,
          invoked |-> FALSE, defrag_count |-> 0,
          raised |-> FALSE, last_gc_time |-> t]

\* garbage_collect() at clock value t with the given memory_pressure: the new
\* manager state, collected_blocks, defragmentation_performed, whether the
\* defragmenter was called and what it returned, whether the call raised,
\* and the new last_gc_time (old_gc when the call raised)
GarbageCollectOp(m, pressure, old_gc, t) ==
    AfterScan(ScanPools(m, t), pressure, old_gc, t)

(* ------------------- get_memory_info / pressure ----------------------- *)
\* _calculate_fragmentation(): 5.0 on every path
CalculateFragmentation == 5

\* mutant of UpdatePressure: no plateau between 0.7 and 0.9
UpdatePressureNoPlateau(used_mb, tot_mb) ==
    IF used_mb * 10 > 9 * tot_mb THEN <<9, 10>>
    ELSE <<used_mb, tot_mb>>

\* the memory_pressure that _update_memory_stats(used_mb, total_mb) stores
UpdatePressure(used_mb, tot_mb) ==
    IF used_mb * 10 > 9 * tot_mb THEN <<9, 10>>
    ELSE IF used_mb * 10 > 7 * tot_mb THEN <<7, 10>>
    ELSE <<used_mb, tot_mb>>

\* mutant of UsedMbValues: the reading ranges up to fifteen sixteenths
UsedMbValuesHigh == 4..15

\* used_mb = random.randint(4, 8)
UsedMbValues == 4..8

\* the values passed when _update_memory_stats(used_mb, total_mb) is called
\* on its own: a quarter, a half, three quarters and fifteen sixteenths of
\* total_mb
StatsUsedMb == {4, 8, 12, 15}

(* --------------- get_memory_map / get_memory_analytics ---------------- *)
\* f"{(used_blocks / total_blocks) * 100:.1f}", in tenths of a percent
Utilization(used_blocks, total_blocks) ==
    (2000 * used_blocks + total_blocks) \div (2 * total_blocks)

\* get_memory_map(): the entry of every pool
MemoryMap(pools) ==
    {[pool |-> c,
      total_blocks |-> pools[c].total_blocks,
      used_blocks |-> pools[c].used_blocks,
      free_blocks |-> Len(pools[c].available),
      utilization |-> Utilization(pools[c].used_blocks, pools[c].total_blocks)]
       : c \in DOMAIN pools}

\* get_memory_map() reads the pools and returns the map
GetMemoryMapOp(m) == [m |-> m, ret |-> MemoryMap(m.memory_pools)]

\* seq[-n:]
LastN(seq, n) ==
    SubSeq(seq, IF Len(seq) > n THEN Len(seq) - n + 1 ELSE 1, Len(seq))

\* the bounds of the size_range label of a record:
\* (size // 1024) * 1024 and ((size // 1024) + 1) * 1024
SizeRange(size) == <<(size \div 1024) * 1024, ((size \div 1024) + 1) * 1024>>

\* allocation_patterns over allocation_history[-100:]: the pairs of a
\* size_range and the number of records in it
AllocationPatterns(history) ==
    LET recent == LastN(history, 100)
        ranges == {SizeRange(recent[i].size) : i \in DOMAIN recent}
    IN {<<r, Cardinality({i \in DOMAIN recent : SizeRange(recent[i].size) = r})>>
          : r \in ranges}

\* sum([record['size'] for record in records])
SumSizes(records) ==
    LET upto[i \in 0..Len(records)] ==
          IF i = 0 THEN 0 ELSE upto[i - 1] + records[i].size
    IN upto[Len(records)]

\* mutant of PredictedUsage: ten records are enough for a prediction
PredictedUsageFromTen(history) ==
    IF Len(history) >= 10
    THEN (SumSizes(LastN(history, 10)) * 12 + 50) \div 100
    ELSE 0

\* predicted_usage as printed by f"{predicted_usage:.0f}": the sum of the
\* last 10 sizes / 10 * 1.2 rounded to the nearest integer when the ledger
\* holds more than 10 records, 0 otherwise
PredictedUsage(history) ==
    IF Len(history) > 10
    THEN (SumSizes(LastN(history, 10)) * 12 + 50) \div 100
    ELSE 0

\* the dict returned by get_memory_analytics(); memory_efficiency is in
\* tenths of a percent
AnalyticsReport(m, pressure) ==
    [allocation_patterns |-> AllocationPatterns(m.allocation_history),
     predicted_usage |-> PredictedUsage(m.allocation_history),
     fragmentation_trend |->
         IF m.memory_stats.current_fragmentation < 15 THEN "Stable"
         ELSE "Increasing",
     memory_efficiency |-> (100 - m.memory_stats.current_fragmentation) * 10,
     gc_recommendation |-> IF RatGT(pressure, <<7, 10>>) THEN "Run GC" ELSE "OK"]

\* mutant of GetMemoryAnalyticsOp: the ledger is cut to the records read
GetMemoryAnalyticsOpTrim(m, pressure) ==
    [m |-> [m EXCEPT !.allocation_history = LastN(m.allocation_history, 1)],
     ret |-> AnalyticsReport(m, pressure), raised |-> FALSE]

\* get_memory_analytics(): reads the ledger, the statistics and the
\* pressure and returns the report; no path of it raises
GetMemoryAnalyticsOp(m, pressure) ==
    [m |-> m, ret |-> AnalyticsReport(m, pressure), raised |-> FALSE]

(* ----------------- CPUManager.get_cpu_analytics (cpu.py) --------------- *)
\* min(100, max(0, x)) for x in tenths of a percent
ClampPercent(tenths) ==
    IF tenths < 0 THEN 0 ELSE IF tenths > 1000 THEN 1000 ELSE tenths

\* predicted_usage as printed by f"{predicted_usage:.1f}", in tenths of a
\* percent, from the usages of the last samples (whole percents here):
\* trend = (recent_usage[-1] - recent_usage[0]) / len(recent_usage),
\* predicted_usage = min(100, max(0, recent_usage[-1] + trend * 5)) when
\* there are at least 5 usages, their average otherwise
PredictedCpuUsage(recent_usage) ==
    LET n == Len(recent_usage)
        sum[i \in 0..n] == IF i = 0 THEN 0 ELSE sum[i - 1] + recent_usage[i]
    IN IF n >= 5
       THEN ClampPercent((10 * n * recent_usage[n]
                            + 50 * (recent_usage[n] - recent_usage[1])) \div n)
       ELSE (20 * sum[n] + n) \div (2 * n)

\* get_cpu_analytics() on the usage history: raises when it holds fewer
\* than 10 samples, else predicts from the last 10
CpuAnalyticsOp(usage_history) ==
    IF Len(usage_history) < 10
    THEN [raised |-> TRUE, predicted_usage |-> 0]
    ELSE [raised |-> FALSE,
          predicted_usage |-> PredictedCpuUsage(LastN(usage_history, 10))]

(* ------------------------- concurrent callers ------------------------- *)
\* Two threads call the wrappers of the shared memory_manager.  No lock
\* guards it, so the interpreter may switch threads between any two of the
\* steps below; each step is one list or counter access of the source (or a
\* run of accesses the thread makes without being interrupted).
Threads == {1, 2}

\* a block object that is no block
NoBlock == NewBlock(0, 0, 0)

\* the locals of a thread that is in no call: pc is the position in the
\* call, `block` the block object held, `snapshot` the copy of an allocated
\* list that garbage_collect iterates over, `read` the counter value read by
\* a `+=` or `-=` before it is written back, in_gc whether deallocate_memory
\* was called by garbage_collect, `calls` the number of calls made
IdleThread ==
    [pc |-> "idle", size |-> 0, priority |-> NoPriority, block_id |-> NoneId,
     best_pool_size |-> 0, k |-> 0, i |-> 0, block |-> NoBlock, read |-> 0,
     gc_k |-> 0, j |-> 0, snapshot |-> <<>>, current_time |-> 0,
     collected_blocks |-> 0, in_gc |-> FALSE,
     ret_id |-> NoneId, ret_bool |-> FALSE, ret_count |-> 0, raised |-> FALSE,
     calls |-> 0]

\* the sizes and ids the threads pass
ThreadSizes == {1, 2}

ThreadIds == PoolSizeSet \X IdNumbers

\* the calls made so far by all threads
CallsMade(thr) ==
    LET upto[t \in 0..Cardinality(Threads)] ==
          IF t = 0 THEN 0 ELSE upto[t - 1] + thr[t].calls
    IN upto[Cardinality(Threads)]

\* the locals of a thread that starts a call
Fresh(th) == [IdleThread EXCEPT !.calls = th.calls + 1]

\* the locals of a thread whose call has ended: left as they are, pc idle
Ended(th) == [th EXCEPT !.pc = "idle"]

\* a block object is shared by reference: a write to its fields shows in
\* every list and every local that holds it
WriteSeq(seq, obj) ==
    [n \in DOMAIN seq |-> IF seq[n].uid = obj.uid THEN obj ELSE seq[n]]

WritePools(pools, obj) ==
    [pools EXCEPT ![obj.size] =
        [@ EXCEPT !.available = WriteSeq(@, obj), !.allocated = WriteSeq(@, obj)]]

WriteLocals(thr, obj) ==
    [t \in Threads |->
        [thr[t] EXCEPT !.block = IF @.uid = obj.uid THEN obj ELSE @,
                       !.snapshot = WriteSeq(@, obj)]]

(* ------------- CPUManager._update_power_management (cpu.py) ----------- *)
\* self.power_states as CPUManager.__init__ leaves it; power_consumption
\* is in tenths of a watt
InitialPowerStates ==
    [current_state |-> "active", power_consumption |-> 0,
     thermal_throttling |-> FALSE]

\* base_power + dynamic_power = 15.0 + (usage / 100) * 45.0, in tenths of a
\* watt (exact for even usage)
PowerConsumption(usage) == 150 + (usage * 450) \div 100

\* _update_power_management(usage, temperature): the power_states it leaves
UpdatePowerManagement(power_states, usage, temperature) ==
    LET powered == [power_states EXCEPT
                       !.power_consumption = PowerConsumption(usage)]
    IN IF temperature > 80
       THEN [powered EXCEPT !.thermal_throttling = TRUE,
                            !.current_state = "throttled"]
       ELSE IF temperature > 70
       THEN [powered EXCEPT !.current_state = "warm"]
       ELSE [powered EXCEPT !.thermal_throttling = FALSE,
                            !.current_state = "active"]

\* the values _get_current_cpu_usage() returns: idle and fully loaded
SampledUsages == {0, 100}

\* the values _get_current_temperature() returns, in degrees: the two
\* thresholds of _update_power_management and a value above each
SampledTemperatures == {70, 75, 80, 85}

(* ------------------ CPUManager._monitor_cpu (cpu.py) ------------------ *)
\* the monitoring thread as CPUManager.__init__ starts it: monitoring_active
\* is True and the thread is at the test of its `while`.  pc is its
\* position; usage_history and load_averages are the lengths of the two
\* deques; stop_pc is where the thread was when monitoring_active was set
\* to False ("none" before that), `raised` whether the cycle in progress
\* raised, `finished` whether a cycle has ended since the stop signal,
\* current_usage and current_temp the two samples of the cycle, and
\* power_states the dictionary of that name
StartedMonitor ==
    [pc |-> "check", monitoring_active |-> TRUE, usage_history |-> 0,
     load_averages |-> 0, stop_pc |-> "none", raised |-> FALSE,
     finished |-> FALSE, current_usage |-> 0, current_temp |-> 0,
     power_states |-> InitialPowerStates]

\* the statements of the try block of one cycle, in order: the two samples,
\* the append to usage_history, the load average, the cache and the power
\* updates, and time.sleep(0.5)
CycleSteps == <<"sample", "append", "load", "cache", "power", "sleep">>

InCycle == {CycleSteps[i] : i \in DOMAIN CycleSteps}

\* the statement after `pc` in the try block; the test of the `while`
\* after the last one
NextInCycle(pc) ==
    LET i == CHOOSE j \in DOMAIN CycleSteps : CycleSteps[j] = pc
    IN IF i < Len(CycleSteps) THEN CycleSteps[i + 1] ELSE "check"

\* deque.append on a deque of length n with maxlen MaxSamples
DequeAppend(n) == IF n < MaxSamples THEN n + 1 ELSE MaxSamples

\* mutant of OnException: an exception in the cycle ends the thread
OnExceptionExit(mon) == [mon EXCEPT !.pc = "done", !.raised = TRUE]

\* `except Exception as e:` catches what a statement of the cycle raised;
\* the handler is time.sleep(1)
OnException(mon) == [mon EXCEPT !.pc = "except_sleep", !.raised = TRUE]

\* the end of a cycle: back to the test of the `while`
EndCycle(mon) ==
    [mon EXCEPT !.pc = "check",
                !.finished = @ \/ mon.stop_pc # "none"]

(* ------------------------ function evaluations ------------------------ *)
\* no function has been evaluated
NoProbe == [fn |-> "none", args |-> <<>>, vals |-> <<>>]

(* ------------------------------ state --------------------------------- *)
\* the random numbers of the ids of one class: each block draws its own;
\* ids are only ever compared for equality, so the first block's number is
\* fixed and the others range over all numbers
Draws == {d \in [1..BlockCount -> IdNumbers] : d[1] = IdBase}

\* _initialize_memory_pools() for the size classes `classes`: each class
\* holds block_count free blocks, each with an id number drawn independently
InitializeMemoryPools(classes) ==
    \E draw \in [classes -> Draws] :
          memory_pools =
            [size \in classes |->
               [available |-> [k \in 1..block_count(size) |-> NewBlock(size, k, draw[size][k])],
                allocated |-> <<>>,
                total_blocks |-> block_count(size),
                used_blocks |-> 0]]

\* the state after MemoryManager.__init__
Init ==
    /\ InitializeMemoryPools(PoolSizeSet)
    /\ allocation_history = <<>>
    /\ memory_stats = [total_allocations |-> 0, total_deallocations |-> 0,
                       peak_usage |-> 0, current_fragmentation |-> 0]
    /\ memory_pressure = <<0, 1>>
    /\ last_gc_time = 0
    /\ now = 0
    /\ last = NoCall
    /\ threads = [t \in Threads |-> IdleThread]
    /\ probe = NoProbe
    /\ monitor = StartedMonitor

\* the clock advances between calls
Tick ==
    /\ \E t \in ClockValues : t > now /\ now' = t
    /\ UNCHANGED <<memory_pools, allocation_history, memory_stats,
                   memory_pressure, last_gc_time, last, aside>>

\* a caller calls allocate_memory(size, priority) with a size of `sizes`;
\* at most `cap` calls succeed
AllocateSized(sizes, cap) ==
    /\ memory_stats.total_allocations < cap
    /\ \E size \in sizes, priority \in Priorities :
         \E r \in {AllocateOp(Manager, size, priority, now)} :
         /\ memory_pools' = r.m.memory_pools
         /\ allocation_history' = r.m.allocation_history
         /\ memory_stats' = r.m.memory_stats
         /\ last' = [NoCall EXCEPT !.op = "allocate", !.size = size,
                                   !.priority = priority, !.ret_id = r.ret]
    /\ UNCHANGED <<memory_pressure, last_gc_time, now, aside>>

\* a caller calls allocate_memory(size, priority); at most `cap` calls succeed
AllocateCall(cap) == AllocateSized(Sizes, cap)

AllocateMemory == AllocateCall(MaxAllocs)

\* a caller calls deallocate_memory(block_id)
DeallocateMemory ==
    /\ \E block_id \in CallerIds :
         \E r \in {DeallocateOp(Manager, block_id)} :
         /\ memory_pools' = r.m.memory_pools
         /\ allocation_history' = r.m.allocation_history
         /\ memory_stats' = r.m.memory_stats
         /\ last' = [NoCall EXCEPT !.op = "deallocate", !.block_id = block_id,
                                   !.ret_bool = r.ret]
    /\ UNCHANGED <<memory_pressure, last_gc_time, now, aside>>

\* a caller calls garbage_collect()
GarbageCollect ==
    /\ \E r \in {GarbageCollectOp(Manager, memory_pressure, last_gc_time, now)} :
         /\ memory_pools' = r.m.memory_pools
         /\ allocation_history' = r.m.allocation_history
         /\ memory_stats' = r.m.memory_stats
         /\ last_gc_time' = r.last_gc_time
         /\ last' = [NoCall EXCEPT !.op = "gc", !.ret_count = r.collected,
                                   !.ret_bool = r.defrag, !.raised = r.raised,
                                   !.defrag_invoked = r.invoked,
                                   !.defrag_count = r.defrag_count,
                                   !.retry_size = FailedSize(last)]
    /\ UNCHANGED <<memory_pressure, now, aside>>

\* _defragment_memory() called on its own
DefragmentMemory ==
    /\ \E r \in {DefragmentOp(Manager, now)} :
         /\ memory_pools' = r.m.memory_pools
         /\ allocation_history' = r.m.allocation_history
         /\ memory_stats' = r.m.memory_stats
         /\ last' = [NoCall EXCEPT !.op = "defragment", !.ret_count = r.ret]
    /\ UNCHANGED <<memory_pressure, last_gc_time, now, aside>>

\* a caller calls get_memory_info()
GetMemoryInfo ==
    /\ \E used_mb \in UsedMbValues :
         /\ memory_stats' = [memory_stats EXCEPT
                                !.current_fragmentation = CalculateFragmentation]
         /\ memory_pressure' = UpdatePressure(used_mb, total_mb)
         /\ last' = [NoCall EXCEPT !.op = "info"]
    /\ UNCHANGED <<memory_pools, allocation_history, last_gc_time, now, aside>>

\* the allocator core: allocate, deallocate, garbage collection and
\* defragmentation calls of a single caller, and the passing of time
Next ==
    \/ Tick
    \/ AllocateMemory
    \/ DeallocateMemory
    \/ GarbageCollect
    \/ DefragmentMemory

Spec == Init /\ [][Next]_vars

\* the same calls made in one burst, with no time passing between them
AllocateBurst == AllocateCall(MaxBurstAllocs)

NextBurst ==
    \/ AllocateBurst
    \/ DeallocateMemory
    \/ GarbageCollect
    \/ DefragmentMemory

SpecBurst == Init /\ [][NextBurst]_vars

\* a caller calls get_memory_analytics()
GetMemoryAnalytics ==
    /\ \E r \in {GetMemoryAnalyticsOp(Manager, memory_pressure)} :
         /\ memory_pools' = r.m.memory_pools
         /\ allocation_history' = r.m.allocation_history
         /\ memory_stats' = r.m.memory_stats
         /\ last' = [NoCall EXCEPT !.op = "analytics", !.report = r.ret,
                                   !.raised = r.raised]
    /\ UNCHANGED <<memory_pressure, last_gc_time, now, aside>>

\* a caller calls get_memory_map()
GetMemoryMap ==
    /\ \E r \in {GetMemoryMapOp(Manager)} :
         /\ memory_pools' = r.m.memory_pools
         /\ allocation_history' = r.m.allocation_history
         /\ memory_stats' = r.m.memory_stats
         /\ last' = [NoCall EXCEPT !.op = "map", !.map = r.ret]
    /\ UNCHANGED <<memory_pressure, last_gc_time, now, aside>>

\* a caller calls memory_manager.touch(block_id): MemoryManager has no such
\* attribute, the call raises AttributeError and changes nothing
Touch ==
    /\ \E block_id \in CallerIds :
         last' = [NoCall EXCEPT !.op = "touch", !.block_id = block_id,
                                !.raised = TRUE]
    /\ UNCHANGED <<memory_pools, allocation_history, memory_stats,
                   memory_pressure, last_gc_time, now, aside>>

\* the timeout of two configured size classes is evaluated, as the idle
\* scan of garbage_collect evaluates it for the class of each block
EvalTimeout ==
    /\ \E c1, c2 \in ConfiguredClasses :
         probe' = [fn |-> "timeout", args |-> <<c1, c2>>,
                   vals |-> <<timeout(c1), timeout(c2)>>]
    /\ UNCHANGED <<memory_pools, allocation_history, memory_stats,
                   memory_pressure, last_gc_time, now, last, threads, monitor>>

NextTimeout == EvalTimeout

SpecTimeout == Init /\ [][NextTimeout]_vars

(* ---- the steps of allocate_memory made by thread t ---- *)
\* thread t calls allocate_memory(size, "normal")
TAllocate(t) ==
    /\ threads[t].pc = "idle"
    /\ CallsMade(threads) < MaxThreadCalls
    /\ \E size \in ThreadSizes :
         threads' = [threads EXCEPT ![t] =
                        [Fresh(@) EXCEPT !.pc = "a_scan", !.size = size,
                                         !.priority = "normal", !.k = 1]]
    /\ UNCHANGED <<memory_pools, allocation_history, memory_stats,
                   memory_pressure, last_gc_time, now, last, probe, monitor>>

\* one iteration of `for pool_size in sorted(self.memory_pools.keys())`;
\* after the last one without a hit the call returns None
AScan(t) ==
    /\ threads[t].pc = "a_scan"
    /\ LET th == threads[t]
           pool_size == pool_sizes[th.k]
       IN threads' = [threads EXCEPT ![t] =
             IF pool_size >= th.size /\ Len(memory_pools[pool_size].available) > 0
             THEN [th EXCEPT !.best_pool_size = pool_size, !.pc = "a_pop"]
             ELSE IF th.k < NumClasses THEN [th EXCEPT !.k = th.k + 1]
             ELSE [Ended(th) EXCEPT !.ret_id = NoneId]]
    /\ UNCHANGED <<memory_pools, allocation_history, memory_stats,
                   memory_pressure, last_gc_time, now, last, probe, monitor>>

\* block = self.memory_pools[best_pool_size]['available'].pop(); on an empty
\* list pop raises IndexError and the call ends in an exception
APop(t) ==
    /\ threads[t].pc = "a_pop"
    /\ LET th == threads[t]
           available == memory_pools[th.best_pool_size].available
       IN IF Len(available) = 0
          THEN /\ threads' = [threads EXCEPT ![t] = [Ended(th) EXCEPT !.raised = TRUE]]
               /\ memory_pools' = memory_pools
          ELSE /\ threads' = [threads EXCEPT ![t] =
                     [th EXCEPT !.block = available[Len(available)], !.pc = "a_stamp"]]
               /\ memory_pools' =
                     [memory_pools EXCEPT ![th.best_pool_size].available =
                         SubSeq(available, 1, Len(available) - 1)]
    /\ UNCHANGED <<allocation_history, memory_stats,
                   memory_pressure, last_gc_time, now, last, probe, monitor>>

\* block['allocated_at'] = time.time(); block['last_access'] = time.time();
\* block['priority'] = priority
AStamp(t) ==
    /\ threads[t].pc = "a_stamp"
    /\ \E obj \in {[threads[t].block EXCEPT !.allocated_at = now, !.last_access = now,
                                            !.priority = threads[t].priority]} :
         /\ threads' = [WriteLocals(threads, obj) EXCEPT ![t].pc = "a_append"]
         /\ memory_pools' = WritePools(memory_pools, obj)
    /\ UNCHANGED <<allocation_history, memory_stats,
                   memory_pressure, last_gc_time, now, last, probe, monitor>>

\* self.memory_pools[best_pool_size]['allocated'].append(block)
AAppend(t) ==
    /\ threads[t].pc = "a_append"
    /\ memory_pools' = [memory_pools EXCEPT ![threads[t].best_pool_size].allocated =
                           Append(@, threads[t].block)]
    /\ threads' = [threads EXCEPT ![t].pc = "a_used_read"]
    /\ UNCHANGED <<allocation_history, memory_stats,
                   memory_pressure, last_gc_time, now, last, probe, monitor>>

\* the read of `self.memory_pools[best_pool_size]['used_blocks'] += 1`
AUsedRead(t) ==
    /\ threads[t].pc = "a_used_read"
    /\ threads' = [threads EXCEPT ![t].pc = "a_used_write",
                                  ![t].read = memory_pools[threads[t].best_pool_size].used_blocks]
    /\ UNCHANGED <<memory_pools, allocation_history, memory_stats,
                   memory_pressure, last_gc_time, now, last, probe, monitor>>

\* the write of `self.memory_pools[best_pool_size]['used_blocks'] += 1`
AUsedWrite(t) ==
    /\ threads[t].pc = "a_used_write"
    /\ memory_pools' = [memory_pools EXCEPT ![threads[t].best_pool_size].used_blocks =
                           threads[t].read + 1]
    /\ threads' = [threads EXCEPT ![t].pc = "a_history"]
    /\ UNCHANGED <<allocation_history, memory_stats,
                   memory_pressure, last_gc_time, now, last, probe, monitor>>

\* self.allocation_history.append({...})
AHistory(t) ==
    /\ threads[t].pc = "a_history"
    /\ allocation_history' =
          Append(allocation_history,
                 HistoryRecord(threads[t].block, threads[t].size, threads[t].priority))
    /\ threads' = [threads EXCEPT ![t].pc = "a_total_read"]
    /\ UNCHANGED <<memory_pools, memory_stats,
                   memory_pressure, last_gc_time, now, last, probe, monitor>>

\* the read of `self.memory_stats['total_allocations'] += 1`
ATotalRead(t) ==
    /\ threads[t].pc = "a_total_read"
    /\ threads' = [threads EXCEPT ![t].pc = "a_total_write",
                                  ![t].read = memory_stats.total_allocations]
    /\ UNCHANGED <<memory_pools, allocation_history, memory_stats,
                   memory_pressure, last_gc_time, now, last, probe, monitor>>

\* the write of `self.memory_stats['total_allocations'] += 1`, and
\* `return block['id']`
ATotalWrite(t) ==
    /\ threads[t].pc = "a_total_write"
    /\ memory_stats' = [memory_stats EXCEPT !.total_allocations = threads[t].read + 1]
    /\ threads' = [threads EXCEPT ![t] =
                      [Ended(@) EXCEPT !.ret_id = threads[t].block.id]]
    /\ UNCHANGED <<memory_pools, allocation_history,
                   memory_pressure, last_gc_time, now, last, probe, monitor>>

(* ---- the steps of deallocate_memory made by thread t ---- *)
\* thread t calls deallocate_memory(block_id)
TDeallocate(t) ==
    /\ threads[t].pc = "idle"
    /\ CallsMade(threads) < MaxThreadCalls
    /\ \E block_id \in ThreadIds :
         threads' = [threads EXCEPT ![t] =
                        [Fresh(@) EXCEPT !.pc = "d_scan", !.block_id = block_id,
                                         !.k = 1, !.i = 1]]
    /\ UNCHANGED <<memory_pools, allocation_history, memory_stats,
                   memory_pressure, last_gc_time, now, last, probe, monitor>>

\* the locals of a thread whose deallocate_memory returns `ret`: back in
\* garbage_collect when it made the call (`collected_blocks += 1` on True),
\* otherwise the call has ended
DReturn(th, ret) ==
    IF th.in_gc
    THEN [th EXCEPT !.pc = "g_block", !.in_gc = FALSE, !.j = th.j + 1,
                    !.collected_blocks = th.collected_blocks + (IF ret THEN 1 ELSE 0)]
    ELSE [Ended(th) EXCEPT !.ret_bool = ret]

\* the locals of a thread whose call raises: the exception passes through
\* garbage_collect when it made the call
Raise(th) == [Ended(th) EXCEPT !.raised = TRUE, !.in_gc = FALSE]

\* one iteration of `for i, block in enumerate(pool['allocated'])` with the
\* test of the id, going on to the next pool at the end of the list; after
\* the last pool the call returns False
DScan(t) ==
    /\ threads[t].pc = "d_scan"
    /\ LET th == threads[t]
           allocated == memory_pools[pool_sizes[th.k]].allocated
       IN threads' = [threads EXCEPT ![t] =
             IF th.i <= Len(allocated)
             THEN IF allocated[th.i].id = th.block_id
                  THEN [th EXCEPT !.block = allocated[th.i], !.pc = "d_clear"]
                  ELSE [th EXCEPT !.i = th.i + 1]
             ELSE IF th.k < NumClasses THEN [th EXCEPT !.k = th.k + 1, !.i = 1]
             ELSE DReturn(th, FALSE)]
    /\ UNCHANGED <<memory_pools, allocation_history, memory_stats,
                   memory_pressure, last_gc_time, now, last, probe, monitor>>

\* block['allocated_at'] = None; block['last_access'] = None
DClear(t) ==
    /\ threads[t].pc = "d_clear"
    /\ \E obj \in {[threads[t].block EXCEPT !.allocated_at = None, !.last_access = None]} :
         /\ threads' = [WriteLocals(threads, obj) EXCEPT ![t].pc = "d_append"]
         /\ memory_pools' = WritePools(memory_pools, obj)
    /\ UNCHANGED <<allocation_history, memory_stats,
                   memory_pressure, last_gc_time, now, last, probe, monitor>>

\* pool['available'].append(block)
DAppend(t) ==
    /\ threads[t].pc = "d_append"
    /\ memory_pools' = [memory_pools EXCEPT ![pool_sizes[threads[t].k]].available =
                           Append(@, threads[t].block)]
    /\ threads' = [threads EXCEPT ![t].pc = "d_pop"]
    /\ UNCHANGED <<allocation_history, memory_stats,
                   memory_pressure, last_gc_time, now, last, probe, monitor>>

\* pool['allocated'].pop(i): whatever is at position i now is removed; past
\* the end pop raises IndexError and the call ends in an exception
DPop(t) ==
    /\ threads[t].pc = "d_pop"
    /\ LET th == threads[t]
           allocated == memory_pools[pool_sizes[th.k]].allocated
       IN IF th.i > Len(allocated)
          THEN /\ threads' = [threads EXCEPT ![t] = Raise(th)]
               /\ memory_pools' = memory_pools
          ELSE /\ threads' = [threads EXCEPT ![t].pc = "d_used_read"]
               /\ memory_pools' = [memory_pools EXCEPT ![pool_sizes[th.k]].allocated =
                                      RemoveAt(allocated, th.i)]
    /\ UNCHANGED <<allocation_history, memory_stats,
                   memory_pressure, last_gc_time, now, last, probe, monitor>>

\* the read of `pool['used_blocks'] -= 1`
DUsedRead(t) ==
    /\ threads[t].pc = "d_used_read"
    /\ threads' = [threads EXCEPT ![t].pc = "d_used_write",
                                  ![t].read = memory_pools[pool_sizes[threads[t].k]].used_blocks]
    /\ UNCHANGED <<memory_pools, allocation_history, memory_stats,
                   memory_pressure, last_gc_time, now, last, probe, monitor>>

\* the write of `pool['used_blocks'] -= 1`
DUsedWrite(t) ==
    /\ threads[t].pc = "d_used_write"
    /\ memory_pools' = [memory_pools EXCEPT ![pool_sizes[threads[t].k]].used_blocks =
                           threads[t].read - 1]
    /\ threads' = [threads EXCEPT ![t].pc = "d_total_read"]
    /\ UNCHANGED <<allocation_history, memory_stats,
                   memory_pressure, last_gc_time, now, last, probe, monitor>>

\* the read of `self.memory_stats['total_deallocations'] += 1`
DTotalRead(t) ==
    /\ threads[t].pc = "d_total_read"
    /\ threads' = [threads EXCEPT ![t].pc = "d_total_write",
                                  ![t].read = memory_stats.total_deallocations]
    /\ UNCHANGED <<memory_pools, allocation_history, memory_stats,
                   memory_pressure, last_gc_time, now, last, probe, monitor>>

\* the write of `self.memory_stats['total_deallocations'] += 1`, and
\* `return True`
DTotalWrite(t) ==
    /\ threads[t].pc = "d_total_write"
    /\ memory_stats' = [memory_stats EXCEPT !.total_deallocations = threads[t].read + 1]
    /\ threads' = [threads EXCEPT ![t] = DReturn(@, TRUE)]
    /\ UNCHANGED <<memory_pools, allocation_history,
                   memory_pressure, last_gc_time, now, last, probe, monitor>>

(* ---- the steps of garbage_collect made by thread t ---- *)
\* thread t calls garbage_collect()
TGarbageCollect(t) ==
    /\ threads[t].pc = "idle"
    /\ CallsMade(threads) < MaxThreadCalls
    /\ threads' = [threads EXCEPT ![t] = [Fresh(@) EXCEPT !.pc = "g_pool", !.gc_k = 1]]
    /\ UNCHANGED <<memory_pools, allocation_history, memory_stats,
                   memory_pressure, last_gc_time, now, last, probe, monitor>>

\* one iteration of `for pool_size, pool in self.memory_pools.items()`:
\* current_time = time.time() and the copy pool['allocated'][:]
GPool(t) ==
    /\ threads[t].pc = "g_pool"
    /\ threads' = [threads EXCEPT ![t].pc = "g_block", ![t].j = 1,
                                  ![t].current_time = now,
                                  ![t].snapshot =
                                      memory_pools[pool_sizes[threads[t].gc_k]].allocated]
    /\ UNCHANGED <<memory_pools, allocation_history, memory_stats,
                   memory_pressure, last_gc_time, now, last, probe, monitor>>

\* one iteration of `for block in pool['allocated'][:]`: the idle test,
\* which raises TypeError when last_access is None, and the call of
\* deallocate_memory(block['id']) for an idle block; at the end of the copy
\* the next pool, or the end of the scan
GBlock(t) ==
    /\ threads[t].pc = "g_block"
    /\ LET th == threads[t]
           pool_size == pool_sizes[th.gc_k]
       IN threads' = [threads EXCEPT ![t] =
             IF th.j > Len(th.snapshot)
             THEN IF th.gc_k < NumClasses
                  THEN [th EXCEPT !.gc_k = th.gc_k + 1, !.pc = "g_pool"]
                  ELSE [th EXCEPT !.pc = "g_finish"]
             ELSE IF th.snapshot[th.j].last_access = None THEN Raise(th)
             ELSE IF Expired(th.snapshot[th.j], pool_size, th.current_time)
             THEN [th EXCEPT !.pc = "d_scan", !.in_gc = TRUE,
                             !.block_id = th.snapshot[th.j].id, !.k = 1, !.i = 1]
             ELSE [th EXCEPT !.j = th.j + 1]]
    /\ UNCHANGED <<memory_pools, allocation_history, memory_stats,
                   memory_pressure, last_gc_time, now, last, probe, monitor>>

\* the rest of garbage_collect after the scan: the defragmenter when due
\* (run without interruption), self.last_gc_time = time.time() and the return
GFinish(t) ==
    /\ threads[t].pc = "g_finish"
    /\ \E r \in {AfterScan([m |-> Manager, collected |-> threads[t].collected_blocks,
                              raised |-> FALSE],
                             memory_pressure, last_gc_time, now)} :
         /\ memory_pools' = r.m.memory_pools
         /\ allocation_history' = r.m.allocation_history
         /\ memory_stats' = r.m.memory_stats
         /\ last_gc_time' = r.last_gc_time
         /\ threads' = [threads EXCEPT ![t] =
                           [Ended(@) EXCEPT !.ret_count = r.collected,
                                            !.ret_bool = r.defrag]]
    /\ UNCHANGED <<memory_pressure, now, last, probe, monitor>>

\* some thread makes a step of allocate_memory
Allocating == \E t \in Threads :
    \/ TAllocate(t) \/ AScan(t) \/ APop(t) \/ AStamp(t) \/ AAppend(t)
    \/ AUsedRead(t) \/ AUsedWrite(t) \/ AHistory(t)
    \/ ATotalRead(t) \/ ATotalWrite(t)

\* some thread makes a step of deallocate_memory
Deallocating == \E t \in Threads :
    \/ TDeallocate(t) \/ DScan(t) \/ DClear(t) \/ DAppend(t) \/ DPop(t)
    \/ DUsedRead(t) \/ DUsedWrite(t) \/ DTotalRead(t) \/ DTotalWrite(t)

\* some thread makes a step of garbage_collect
Collecting == \E t \in Threads :
    \/ TGarbageCollect(t) \/ GPool(t) \/ GBlock(t) \/ GFinish(t)

\* two threads calling the allocator with no lock, and the passing of time
NextThreads ==
    \/ Tick
    \/ Allocating
    \/ Deallocating
    \/ Collecting

SpecThreads == Init /\ [][NextThreads]_vars

\* two threads calling only allocate_memory and deallocate_memory
NextCallers ==
    \/ Tick
    \/ Allocating
    \/ Deallocating

SpecCallers == Init /\ [][NextCallers]_vars

\* the core together with the telemetry call that writes memory_pressure
NextInfo == Next \/ GetMemoryInfo

SpecInfo == Init /\ [][NextInfo]_vars

\* allocations and deallocations observed through the views: the telemetry
\* call, the analytics, the memory map, and the call of touch
NextViews ==
    \/ Tick
    \/ AllocateMemory
    \/ DeallocateMemory
    \/ GetMemoryInfo
    \/ GetMemoryAnalytics
    \/ GetMemoryMap
    \/ Touch

SpecViews == Init /\ [][NextViews]_vars

\* _update_memory_stats(used_mb, total_mb) called on its own, as the
\* telemetry hook that feeds the pressure; last.size notes used_mb
UpdateMemoryStats ==
    /\ \E used_mb \in StatsUsedMb :
         /\ memory_stats' = [memory_stats EXCEPT
                                !.current_fragmentation = CalculateFragmentation]
         /\ memory_pressure' = UpdatePressure(used_mb, total_mb)
         /\ last' = [NoCall EXCEPT !.op = "stats", !.size = used_mb]
    /\ UNCHANGED <<memory_pools, allocation_history, last_gc_time, now, aside>>

\* the core with at most MaxStatsAllocs allocations, and the telemetry hook
AllocateFew == AllocateCall(MaxStatsAllocs)

NextStats ==
    \/ Tick
    \/ AllocateFew
    \/ DeallocateMemory
    \/ GarbageCollect
    \/ UpdateMemoryStats

SpecStats == Init /\ [][NextStats]_vars

\* the totals and the used amounts _update_memory_stats is evaluated on:
\* every amount from nothing to more than the total
PressureTotals == {10, total_mb, 20}

PressureUsed(tot_mb) == 0..(tot_mb + 1)

\* _update_memory_stats(used_mb, tot_mb) is called and its arguments and
\* the pressure it stored are noted
EvalPressure ==
    /\ \E tot_mb \in PressureTotals : \E used_mb \in PressureUsed(tot_mb) :
         /\ memory_stats' = [memory_stats EXCEPT
                                !.current_fragmentation = CalculateFragmentation]
         /\ memory_pressure' = UpdatePressure(used_mb, tot_mb)
         /\ probe' = [fn |-> "pressure", args |-> <<used_mb, tot_mb>>,
                      vals |-> UpdatePressure(used_mb, tot_mb)]
    /\ UNCHANGED <<memory_pools, allocation_history, last_gc_time, now, last,
                   threads, monitor>>

NextPressure == EvalPressure

SpecPressure == Init /\ [][NextPressure]_vars

\* the histories the predictions are evaluated on: `older` values followed
\* by a window of ten values that starts with `head`, ends with `tail` and
\* holds `middle` in between, cut to the last n values
ShapedHistory(n, older, head, middle, tail) ==
    LET full == [i \in 1..12 |-> IF i <= 2 THEN older
                                  ELSE IF i = 3 THEN head
                                  ELSE IF i = 12 THEN tail
                                  ELSE middle]
    IN SubSeq(full, 12 - n + 1, 12)

HistoryLengths == {9, 10, 11, 12}

\* requested sizes (KB) and CPU usages (percent) of the histories
LedgerSizes == {1, 2, 512}

CpuUsages == {0, 10, 55, 100}

\* the ledger record of a request of `size`
SizeRecord(size) ==
    [block_id |-> <<1, IdBase>>, size |-> size, allocated_at |-> 0,
     priority |-> "normal"]

\* get_memory_analytics() is evaluated on a ledger of the given sizes
EvalMemoryPrediction ==
    /\ \E n \in HistoryLengths : \E older, head, tail \in LedgerSizes :
         \E sizes \in {ShapedHistory(n, older, head, 2, tail)} :
         \E r \in {GetMemoryAnalyticsOp(
                       [Manager EXCEPT !.allocation_history =
                           [i \in DOMAIN sizes |-> SizeRecord(sizes[i])]],
                       memory_pressure)} :
           probe' = [fn |-> "prediction", args |-> sizes,
                     vals |-> <<r.ret.predicted_usage, 0>>]
    /\ UNCHANGED <<memory_pools, allocation_history, memory_stats,
                   memory_pressure, last_gc_time, now, last, threads, monitor>>

\* get_cpu_analytics() is evaluated on a usage history of the given usages;
\* vals[2] is 1 when the call raised
EvalCpuPrediction ==
    /\ \E n \in HistoryLengths : \E older, head, tail \in CpuUsages :
         \E usages \in {ShapedHistory(n, older, head, 10, tail)} :
         \E r \in {CpuAnalyticsOp(usages)} :
           probe' = [fn |-> "cpu_prediction", args |-> usages,
                     vals |-> <<r.predicted_usage, IF r.raised THEN 1 ELSE 0>>]
    /\ UNCHANGED <<memory_pools, allocation_history, memory_stats,
                   memory_pressure, last_gc_time, now, last, threads, monitor>>

NextPrediction ==
    \/ EvalMemoryPrediction
    \/ EvalCpuPrediction

SpecPrediction == Init /\ [][NextPrediction]_vars

\* the values a caller may give the attributes fragmentation_threshold and
\* gc_threshold (the defaults 15.0 and 0.7 among them), the values
\* current_fragmentation takes (0 after construction, 5.0 once computed)
\* and the used amounts fed into the pressure
FragmentationThresholds == {5, 15}

GcThresholds == {<<1, 2>>, gc_threshold}

FragmentationValues == {0, CalculateFragmentation}

RecommendationUsedMb == 0..total_mb

\* a caller sets the two attributes and feeds the pressure, then
\* get_memory_analytics() is evaluated; it reads neither attribute
EvalRecommendation ==
    /\ \E fragmentation_threshold \in FragmentationThresholds :
       \E threshold \in GcThresholds :
       \E fragmentation \in FragmentationValues :
       \E used_mb \in RecommendationUsedMb :
       \E r \in {GetMemoryAnalyticsOp(
                     [Manager EXCEPT !.memory_stats.current_fragmentation =
                                         fragmentation],
                     UpdatePressure(used_mb, total_mb))} :
         probe' = [fn |-> "recommendation",
                   args |-> <<fragmentation, UpdatePressure(used_mb, total_mb),
                              fragmentation_threshold, threshold>>,
                   vals |-> <<r.ret.fragmentation_trend, r.ret.gc_recommendation>>]
    /\ UNCHANGED <<memory_pools, allocation_history, memory_stats,
                   memory_pressure, last_gc_time, now, last, threads, monitor>>

NextRecommendation == EvalRecommendation

SpecRecommendation == Init /\ [][NextRecommendation]_vars

\* what the monitoring thread and its stop signal leave alone
beside_monitor == <<memory_pools, allocation_history, memory_stats,
                    memory_pressure, last_gc_time, now, last, threads, probe>>

\* `while self.monitoring_active:` is evaluated: the next cycle starts, or
\* the thread ends
MonitorCheck ==
    /\ monitor.pc = "check"
    /\ monitor' = IF monitor.monitoring_active
                  THEN [monitor EXCEPT !.pc = "sample", !.raised = FALSE]
                  ELSE [monitor EXCEPT !.pc = "done"]
    /\ UNCHANGED beside_monitor

\* _get_current_cpu_usage() and _get_current_temperature() return
MonitorSample ==
    /\ monitor.pc = "sample"
    /\ \E usage \in SampledUsages : \E temperature \in SampledTemperatures :
         monitor' = [monitor EXCEPT !.pc = NextInCycle("sample"),
                                    !.current_usage = usage,
                                    !.current_temp = temperature]
    /\ UNCHANGED beside_monitor

\* self.usage_history.append(...)
MonitorAppend ==
    /\ monitor.pc = "append"
    /\ monitor' = [monitor EXCEPT !.pc = NextInCycle("append"),
                                  !.usage_history = DequeAppend(@)]
    /\ UNCHANGED beside_monitor

\* if len(self.usage_history) >= 3: self.load_averages.append(load_avg)
MonitorLoad ==
    /\ monitor.pc = "load"
    /\ monitor' = [monitor EXCEPT
                      !.pc = NextInCycle("load"),
                      !.load_averages = IF monitor.usage_history >= 3
                                        THEN DequeAppend(@) ELSE @]
    /\ UNCHANGED beside_monitor

\* self._update_cache_operations()
MonitorCache ==
    /\ monitor.pc = "cache"
    /\ monitor' = [monitor EXCEPT !.pc = NextInCycle("cache")]
    /\ UNCHANGED beside_monitor

\* self._update_power_management(current_usage, current_temp)
MonitorPower ==
    /\ monitor.pc = "power"
    /\ monitor' = [monitor EXCEPT
                      !.pc = NextInCycle("power"),
                      !.power_states =
                          UpdatePowerManagement(@, monitor.current_usage,
                                                monitor.current_temp)]
    /\ UNCHANGED beside_monitor

\* time.sleep(0.5) returns: the cycle is over
MonitorSleep ==
    /\ monitor.pc = "sleep"
    /\ monitor' = EndCycle(monitor)
    /\ UNCHANGED beside_monitor

\* a statement of the try block raises
MonitorRaise ==
    /\ monitor.pc \in InCycle
    /\ monitor' = OnException(monitor)
    /\ UNCHANGED beside_monitor

\* time.sleep(1) of the handler returns: the cycle is over
MonitorExceptSleep ==
    /\ monitor.pc = "except_sleep"
    /\ monitor' = EndCycle(monitor)
    /\ UNCHANGED beside_monitor

\* some other thread sets cpu_manager.monitoring_active = False
StopMonitoring ==
    /\ monitor.monitoring_active
    /\ monitor' = [monitor EXCEPT !.monitoring_active = FALSE,
                                  !.stop_pc = monitor.pc]
    /\ UNCHANGED beside_monitor

\* the steps the monitoring thread takes when nothing raises
MonitorStep ==
    \/ MonitorCheck
    \/ MonitorSample
    \/ MonitorAppend
    \/ MonitorLoad
    \/ MonitorCache
    \/ MonitorPower
    \/ MonitorSleep
    \/ MonitorExceptSleep

NextMonitor ==
    \/ MonitorStep
    \/ MonitorRaise
    \/ StopMonitoring

SpecMonitor == Init /\ [][NextMonitor]_vars

\* the interpreter keeps scheduling the monitoring thread and its sleeps
\* return: a step the thread can take is taken eventually
SpecMonitorFair == SpecMonitor /\ WF_vars(MonitorStep)

\* the public operations of the manager: the telemetry call, allocation,
\* deallocation, garbage collection and the analytics, and the passing of
\* time
NextPublic ==
    \/ Tick
    \/ AllocateMemory
    \/ DeallocateMemory
    \/ GarbageCollect
    \/ GetMemoryInfo
    \/ GetMemoryAnalytics

SpecPublic == Init /\ [][NextPublic]_vars

\* a manager with one more size class of the ladder, so that a request can
\* be served by a class more than twice its size: small requests fill the
\* smaller classes and fall through to the largest one
WideSizeSet == {pool_sizes[i] : i \in 1..(NumClasses + 1)}

InitWide ==
    /\ InitializeMemoryPools(WideSizeSet)
    /\ allocation_history = <<>>
    /\ memory_stats = [total_allocations |-> 0, total_deallocations |-> 0,
                       peak_usage |-> 0, current_fragmentation |-> 0]
    /\ memory_pressure = <<0, 1>>
    /\ last_gc_time = 0
    /\ now = 0
    /\ last = NoCall
    /\ threads = [t \in Threads |-> IdleThread]
    /\ probe = NoProbe
    /\ monitor = StartedMonitor

\* requests of the smallest size, one more than the smaller classes hold
AllocateSmall == AllocateSized({1}, NumClasses * BlockCount + 1)

NextWide ==
    \/ AllocateSmall
    \/ DeallocateMemory
    \/ DefragmentMemory

SpecWide == InitWide /\ [][NextWide]_vars
(* ======================== checked properties ========================== *)
\* the blocks of a list, as a set
Elems(seq) == {seq[i] : i \in DOMAIN seq}

\* every block object of a pool, whichever list it is in
PoolBlocks(pools, c) == Elems(pools[c].available) \cup Elems(pools[c].allocated)

\* the ids carried by the allocated blocks of all pools
AllocatedIds(pools) ==
    UNION {{b.id : b \in Elems(pools[c].allocated)} : c \in PoolSizeSet}

\* the classes >= s that have a free block
FreeClasses(pools, s) ==
    {c \in PoolSizeSet : c >= s /\ Len(pools[c].available) > 0}

\* the classes >= s
ClassesFor(s) == {c \in PoolSizeSet : c >= s}

\* the step is a call of the operation `op` (the clock stands still
\* during a call; Tick leaves `last` alone)
CallStep(op) == last'.op = op /\ now' = now

\* C1: for every size class, len(available) + len(allocated) equals the
\* class's total_blocks fixed at initialization, in every reachable state
CapacityInvariant ==
    \A c \in PoolSizeSet :
        /\ memory_pools[c].total_blocks = block_count(c)
        /\ Len(memory_pools[c].available) + Len(memory_pools[c].allocated)
               = memory_pools[c].total_blocks

\* C1 witness: a garbage collection reclaimed a block while another block
\* stayed allocated
CapacityWitness ==
    /\ last.op = "gc" /\ last.ret_count > 0
    /\ \E c \in PoolSizeSet : Len(memory_pools[c].allocated) > 0
    /\ memory_stats.total_deallocations > 0

\* C2: no block id occurs twice among the blocks of all pools' available
\* and allocated lists
UniqueBlockIds ==
    \A c1, c2 \in PoolSizeSet :
        \A b1 \in PoolBlocks(memory_pools, c1), b2 \in PoolBlocks(memory_pools, c2) :
            b1.uid # b2.uid => b1.id # b2.id

\* C3: allocate_memory(s, p) returns the id of a block taken from the
\* smallest class >= s with a free block, and None exactly when every class
\* >= s has no free block
AllocationCorrect ==
    [][CallStep("allocate") =>
         LET s == last'.size
             free == FreeClasses(memory_pools, s)
         IN /\ (last'.ret_id = NoneId) <=> (free = {})
            /\ free # {} =>
                 LET c == Min(free) IN
                 \E b \in Elems(memory_pools[c].available) :
                     /\ b.id = last'.ret_id
                     /\ b.size = c /\ c >= s
                     /\ b.uid \in {x.uid : x \in Elems(memory_pools'[c].allocated)}
                     /\ b.uid \notin {x.uid : x \in Elems(memory_pools'[c].available)}]_vars

\* C3 witness: an allocation of size 2 was served by the 2 KB class while the
\* 1 KB class still had free blocks
AllocationWitness ==
    /\ last.op = "allocate" /\ last.size = 2 /\ last.ret_id[1] = 2
    /\ Len(memory_pools[1].available) > 0

\* the smallest class >= s exists and is exhausted, and a larger class has a
\* free block
FallThroughCase(pools, s) ==
    /\ ClassesFor(s) # {}
    /\ Len(pools[Min(ClassesFor(s))].available) = 0
    /\ FreeClasses(pools, s) # {}

\* C4: when the smallest class >= s is exhausted but a larger class has a
\* free block, allocate_memory(s) returns a block of the next larger class
\* with a free block, whose id differs from the ids of all allocated blocks
FallThroughDistinctId ==
    [][(CallStep("allocate") /\ FallThroughCase(memory_pools, last'.size)) =>
         /\ last'.ret_id # NoneId
         /\ last'.ret_id[1] = Min(FreeClasses(memory_pools, last'.size))
         /\ last'.ret_id \notin AllocatedIds(memory_pools)]_vars

\* C5 as stated: allocate_memory(s) fails whenever the smallest class >= s
\* exists but has no free block
NoFallThrough ==
    [][(CallStep("allocate") /\ ClassesFor(last'.size) # {}
          /\ Len(memory_pools[Min(ClassesFor(last'.size))].available) = 0) =>
         last'.ret_id = NoneId]_vars

\* C5 amended: allocate_memory(s) fails only when every class >= s has no
\* free block; when the smallest class >= s is exhausted and a larger class
\* has a free block, the call succeeds with a block of a larger class
FallThroughToLarger ==
    [][CallStep("allocate") =>
         /\ FallThroughCase(memory_pools, last'.size) =>
              /\ last'.ret_id # NoneId
              /\ last'.ret_id[1] > Min(ClassesFor(last'.size))
         /\ last'.ret_id = NoneId =>
              \A c \in ClassesFor(last'.size) : Len(memory_pools[c].available) = 0]_vars

\* C5 witness: a request of size 1 was served by the 2 KB class
FallThroughWitness ==
    /\ last.op = "allocate" /\ last.size = 1 /\ last.ret_id[1] = 2

\* C6: when allocate_memory returns None, the pools (lists and used_blocks),
\* the ledger and the counters are what they were before the call, and the
\* call did not raise
FailedAllocationChangesNothing ==
    [][(CallStep("allocate") /\ last'.ret_id = NoneId) =>
         /\ ~last'.raised
         /\ memory_pools' = memory_pools
         /\ allocation_history' = allocation_history
         /\ memory_stats' = memory_stats]_vars

\* C6 witness: a request of size 2 failed because the 2 KB class, the only
\* class that fits, had no free block
FailedAllocationWitness ==
    /\ last.op = "allocate" /\ last.size = 2 /\ last.ret_id = NoneId
    /\ Len(memory_pools[2].allocated) = memory_pools[2].total_blocks

\* C7: deallocate_memory(id) of an id carried by an allocated block returns
\* True, and a second deallocate_memory(id) right after it returns False
DeallocateTwice ==
    [][CallStep("deallocate") =>
         /\ last'.block_id \in AllocatedIds(memory_pools) => last'.ret_bool
         /\ (last.op = "deallocate" /\ last.ret_bool
               /\ last'.block_id = last.block_id) => ~last'.ret_bool]_vars

\* C8: deallocate_memory(id) does not raise; it returns True iff a block
\* with that id is allocated, and then one such block is cleared and moved to
\* the available list of its pool and total_deallocations grows by 1; when
\* it returns False the pools, the counters and the ledger are unchanged
DeallocateContract ==
    [][CallStep("deallocate") =>
         LET id == last'.block_id IN
         /\ ~last'.raised
         /\ last'.ret_bool <=> (id \in AllocatedIds(memory_pools))
         /\ last'.ret_bool =>
              /\ \E c \in PoolSizeSet : \E b \in Elems(memory_pools[c].allocated) :
                   /\ b.id = id
                   /\ Len(memory_pools'[c].allocated) = Len(memory_pools[c].allocated) - 1
                   /\ b.uid \notin {x.uid : x \in Elems(memory_pools'[c].allocated)}
                   /\ memory_pools'[c].available =
                        Append(memory_pools[c].available,
                               [b EXCEPT !.allocated_at = None, !.last_access = None])
                   /\ \A d \in PoolSizeSet \ {c} : memory_pools'[d] = memory_pools[d]
              /\ memory_stats'.total_deallocations = memory_stats.total_deallocations + 1
              /\ memory_stats'.total_allocations = memory_stats.total_allocations
              /\ allocation_history' = allocation_history
         /\ ~last'.ret_bool =>
              /\ memory_pools' = memory_pools
              /\ memory_stats' = memory_stats
              /\ allocation_history' = allocation_history]_vars

\* C8 witness: a deallocation returned True while another block was still
\* allocated
DeallocateWitness ==
    /\ last.op = "deallocate" /\ last.ret_bool
    /\ memory_stats.total_deallocations = 1
    /\ AllocatedIds(memory_pools) # {}

\* C9: after garbage_collect at time now, every block that was allocated and
\* idle for longer than its class's timeout is in the available list with
\* cleared timestamps, and every other allocated block is still allocated
\* with the same id, allocated_at and last_access
IdleReclaim ==
    [][CallStep("gc") =>
         /\ ~last'.raised
         /\ \A c \in PoolSizeSet : \A b \in Elems(memory_pools[c].allocated) :
              IF now - b.last_access > timeout(c)
              THEN \E x \in Elems(memory_pools'[c].available) :
                       /\ x.uid = b.uid
                       /\ x.allocated_at = None /\ x.last_access = None
              ELSE b \in Elems(memory_pools'[c].allocated)]_vars

\* C9 witness: one garbage collection reclaimed a block and retained another
\* block that was idle for exactly the timeout
IdleReclaimWitness ==
    /\ last.op = "gc" /\ last.ret_count = 1
    /\ \E c \in PoolSizeSet : \E b \in Elems(memory_pools[c].allocated) :
           now - b.last_access = timeout(c)

\* sum over the allocated blocks of their size class
AllocatedBytes(pools) ==
    LET upto[k \in 0..NumPools(pools)] ==
          IF k = 0 THEN 0
          ELSE pool_sizes[k] * Len(pools[pool_sizes[k]].allocated) + upto[k - 1]
    IN upto[NumPools(pools)]

\* the step runs the defragmenter, called on its own or by garbage_collect
DefragStep == CallStep("defragment") \/ (CallStep("gc") /\ last'.ret_bool)

\* C10: defragmentation never increases the total allocated bytes, keeps the
\* size recorded in every ledger record and on every block that stays
\* allocated, and records no requested size that was not recorded before
DefragmentationSafe ==
    [][DefragStep =>
         /\ AllocatedBytes(memory_pools') <= AllocatedBytes(memory_pools)
         /\ Len(allocation_history') >= Len(allocation_history)
         /\ \A i \in 1..Len(allocation_history) :
               allocation_history'[i].size = allocation_history[i].size
         /\ \A i \in 1..Len(allocation_history') :
               \E j \in 1..Len(allocation_history) :
                   allocation_history'[i].size = allocation_history[j].size
         /\ \A c \in PoolSizeSet :
               \A b \in Elems(memory_pools[c].allocated),
                  x \in Elems(memory_pools'[c].allocated) :
                   x.uid = b.uid => x.size = b.size]_vars

\* C10 witness: the defragmenter ran while a block of the 2 KB class was
\* allocated for a request of size 1
DefragmentationWitness ==
    /\ last.op = "defragment"
    /\ Len(memory_pools[2].allocated) > 0
    /\ \E i \in 1..Len(allocation_history) :
          /\ allocation_history[i].size = 1
          /\ allocation_history[i].block_id \in AllocatedIds(memory_pools)
          /\ allocation_history[i].block_id[1] = 2

\* the fewest ledger records for which the analytics of the repository
\* compute a prediction: `len(...) > 10` in get_memory_analytics, `< 10`
\* raises in get_cpu_analytics
MinRecords == 10

\* C11: get_memory_analytics called while the ledger holds fewer records
\* than the minimum (10) does not produce a prediction: it raises
\* InsufficientData
InsufficientDataRaised ==
    [][(CallStep("analytics") /\ Len(allocation_history) < MinRecords) =>
         last'.raised]_vars

\* C12: get_memory_analytics and get_memory_map leave the pools, every
\* field of every block, the ledger, the counters and memory_pressure
\* unchanged
ViewsReadOnly ==
    [][(CallStep("analytics") \/ CallStep("map")) =>
         /\ memory_pools' = memory_pools
         /\ allocation_history' = allocation_history
         /\ memory_stats' = memory_stats
         /\ memory_pressure' = memory_pressure]_vars

\* C12 witness: the analytics were read after two allocations, a
\* deallocation and a telemetry call
ViewsWitness ==
    /\ last.op = "analytics" /\ last.report.allocation_patterns # {}
    /\ Len(allocation_history) >= 2
    /\ memory_stats.total_deallocations >= 1
    /\ memory_pressure # <<0, 1>>

\* the threads that are inside a call of allocate_memory,
\* deallocate_memory or garbage_collect
InFlight == {t \in Threads : threads[t].pc # "idle"}

\* C13: the calls of allocate_memory, deallocate_memory and garbage_collect
\* made by several threads on the shared memory_manager exclude each other:
\* at most one thread is inside such a call at any time, so the steps of
\* two calls never interleave and no garbage_collect scan runs while an
\* allocate_memory is in flight
MutualExclusion == Cardinality(InFlight) <= 1

\* how many times the block object `uid` occurs in the list `seq`
Occurrences(seq, uid) == Cardinality({i \in DOMAIN seq : seq[i].uid = uid})

\* C14: every block object created at initialization is in exactly one of
\* the lists available and allocated of its pool, and its allocated_at and
\* last_access are both set exactly when it is in allocated
BlockStateInvariant ==
    \A c \in PoolSizeSet :
        /\ \A k \in 1..block_count(c) :
              Occurrences(memory_pools[c].available, <<c, k>>)
                + Occurrences(memory_pools[c].allocated, <<c, k>>) = 1
        /\ \A b \in Elems(memory_pools[c].allocated) :
              b.allocated_at # None /\ b.last_access # None
        /\ \A b \in Elems(memory_pools[c].available) :
              ~(b.allocated_at # None /\ b.last_access # None)

\* C14 witness: a pool holds an allocated block and a block that was
\* allocated and given back
BlockStateWitness ==
    /\ memory_stats.total_allocations >= 2
    /\ memory_stats.total_deallocations >= 1
    /\ \E c \in PoolSizeSet :
          /\ Len(memory_pools[c].allocated) >= 1
          /\ Len(memory_pools[c].available) >= 1
          /\ memory_pools[c].used_blocks = 1

\* C15: touch(id) of an allocated block does not fail, sets the block's
\* last_access to the current time and leaves it in the allocated list
TouchRefreshes ==
    [][(CallStep("touch") /\ last'.block_id \in AllocatedIds(memory_pools)) =>
         /\ ~last'.raised
         /\ \E c \in PoolSizeSet : \E i \in DOMAIN memory_pools[c].allocated :
               /\ memory_pools[c].allocated[i].id = last'.block_id
               /\ memory_pools' =
                    [memory_pools EXCEPT ![c].allocated[i].last_access = now]]_vars

\* C16: when allocate_memory(s) has just returned None, one garbage_collect
\* makes the retry of allocate_memory(s) succeed if an allocated block of a
\* class >= s has been idle for longer than its timeout, and the retry fails
\* again if no allocated block of a class >= s has
OomRecovery ==
    [][(CallStep("gc") /\ FailedSize(last) # 0) =>
         LET s == last.size
             idle == \E c \in ClassesFor(s) :
                        \E b \in Elems(memory_pools[c].allocated) :
                            now - b.last_access > timeout(c)
             retry == AllocateOp(Manager', s, last.priority, now).ret
         IN /\ idle => retry # NoneId
            /\ ~idle => retry = NoneId]_vars

\* C16 witness: a garbage collection that directly followed a failed
\* allocate_memory(2) reclaimed a block of the 2 KB class
OomRecoveryWitness ==
    /\ last.op = "gc" /\ last.retry_size = 2 /\ last.ret_count >= 1
    /\ Len(memory_pools[2].available) >= 1

\* C17: a successful allocate_memory(s, p) moves exactly one block from the
\* available list of one class to the end of its allocated list with
\* allocated_at = last_access = the time of the call and priority p, appends
\* exactly one ledger record {block_id, size = s, allocated_at, priority},
\* adds 1 to total_allocations, and leaves the other pools and
\* total_deallocations unchanged
AllocateEffects ==
    [][(CallStep("allocate") /\ last'.ret_id # NoneId) =>
         /\ \E c \in PoolSizeSet : \E i \in DOMAIN memory_pools[c].available :
              LET b == [memory_pools[c].available[i] EXCEPT
                          !.allocated_at = now, !.last_access = now,
                          !.priority = last'.priority]
              IN /\ b.id = last'.ret_id
                 /\ memory_pools'[c].available = RemoveAt(memory_pools[c].available, i)
                 /\ memory_pools'[c].allocated = Append(memory_pools[c].allocated, b)
                 /\ \A d \in PoolSizeSet \ {c} : memory_pools'[d] = memory_pools[d]
                 /\ allocation_history' =
                      Append(allocation_history,
                             [block_id |-> b.id, size |-> last'.size,
                              allocated_at |-> now, priority |-> last'.priority])
         /\ memory_stats'.total_allocations = memory_stats.total_allocations + 1
         /\ memory_stats'.total_deallocations = memory_stats.total_deallocations]_vars

\* C17 witness: an allocation succeeded at time 1 after an earlier
\* allocation and a deallocation
AllocateEffectsWitness ==
    /\ last.op = "allocate" /\ last.ret_id # NoneId /\ now = 1
    /\ Len(allocation_history) >= 2
    /\ allocation_history[Len(allocation_history)].allocated_at = 1
    /\ memory_stats.total_deallocations = 1

\* C18: among the configured size classes the timeout never decreases with
\* the class size and takes two values: some class has a smaller timeout
\* than a larger class, hence the smallest class a smaller timeout than the
\* largest
TwoTierTimeout ==
    probe.fn = "timeout" =>
        LET c1 == probe.args[1]
            c2 == probe.args[2]
        IN /\ c1 < c2 => probe.vals[1] <= probe.vals[2]
           /\ (c1 = 1 /\ c2 = 2^(LadderLength - 1)) => probe.vals[1] < probe.vals[2]

\* the bytes of all blocks of all pools
CapacityBytes(pools) ==
    LET upto[k \in 0..NumPools(pools)] ==
          IF k = 0 THEN 0
          ELSE pool_sizes[k] * pools[pool_sizes[k]].total_blocks + upto[k - 1]
    IN upto[NumPools(pools)]

\* a = b for ratios <<num, den>> with positive denominators
RatEq(a, b) == a[1] * b[2] = b[1] * a[2]

\* C19: the pressure a garbage_collect cycle compares with gc_threshold is
\* the tiered ratio of allocated bytes to capacity bytes of the pools as
\* they are during that cycle (before or after its idle scan)
PressureFromPools ==
    [][CallStep("gc") =>
         \/ RatEq(memory_pressure,
                  UpdatePressure(AllocatedBytes(memory_pools),
                                 CapacityBytes(memory_pools)))
         \/ RatEq(memory_pressure,
                  UpdatePressure(AllocatedBytes(memory_pools'),
                                 CapacityBytes(memory_pools')))]_vars

\* the number of allocated blocks idle for longer than their class's timeout
IdleCount(pools, t) ==
    Cardinality(UNION {{b.uid : b \in {x \in Elems(pools[c].allocated) :
                                           t - x.last_access > timeout(c)}}
                         : c \in PoolSizeSet})

\* C20: garbage_collect calls _defragment_memory exactly when
\* memory_pressure > gc_threshold; collected_blocks is the number of blocks
\* the idle scan reclaimed plus the count the defragmenter returned;
\* defragmentation_performed is True exactly when the defragmenter was
\* called; last_gc_time becomes the time of the cycle and never decreases
DefragReport ==
    [][CallStep("gc") =>
         /\ ~last'.raised
         /\ last'.defrag_invoked <=> RatGT(memory_pressure, gc_threshold)
         /\ last'.ret_bool <=> last'.defrag_invoked
         /\ last'.ret_count = IdleCount(memory_pools, now) + last'.defrag_count
         /\ last_gc_time' = now
         /\ last_gc_time' >= last_gc_time]_vars

\* C20 witness: a cycle run at a pressure above the threshold called the
\* defragmenter and reclaimed an idle block
DefragReportWitness ==
    /\ last.op = "gc" /\ last.defrag_invoked /\ last.ret_bool
    /\ last.ret_count >= 1
    /\ RatGT(memory_pressure, gc_threshold)

\* the requested size of an allocated block: the size of the latest ledger
\* record that carries its id
RequestedSize(history, block) ==
    LET recs == {i \in DOMAIN history : history[i].block_id = block.id}
    IN history[CHOOSE i \in recs : \A j \in recs : j <= i].size

\* the allocated blocks of class c that request less than half of c while a
\* smaller class that fits the request has a free block
Movable(pools, history, c) ==
    {b \in Elems(pools[c].allocated) :
        /\ 2 * RequestedSize(history, b) < c
        /\ \E d \in DOMAIN pools :
             /\ d < c /\ d >= RequestedSize(history, b)
             /\ Len(pools[d].available) > 0}

\* the block objects of `blocks` that are no longer allocated in class c
Gone(pools, c, blocks) ==
    {b \in blocks : \A x \in Elems(pools[c].allocated) : x.uid # b.uid}

\* C21: _defragment_memory frees the allocated blocks that request less
\* than half of their class while a smaller fitting class has a free block,
\* replaces them by blocks of priority 'high' in a smaller class and
\* returns the number moved; when there is no such block nothing moves
DefragMigrates ==
    [][CallStep("defragment") =>
         LET classes == DOMAIN memory_pools
             movable == [c \in classes |->
                            Movable(memory_pools, allocation_history, c)]
             gone == [c \in classes |-> Gone(memory_pools', c, movable[c])]
         IN /\ (\A c \in classes : movable[c] = {}) =>
                  (memory_pools' = memory_pools /\ last'.ret_count = 0)
            /\ \A c \in classes : movable[c] # {} =>
                  /\ gone[c] # {}
                  /\ last'.ret_count >= 1
                  /\ \E d \in classes : \E b \in Elems(memory_pools'[d].allocated) :
                        d < c /\ b.priority = "high"]_vars

\* C22: the ledger only grows at its end: a step either leaves it as it is
\* or is a successful allocate_memory call that appends one record to it,
\* a failed allocation, a deallocation or a garbage collection adds none,
\* and its length equals total_allocations
LedgerAppendOnly ==
    [][/\ Len(allocation_history') = memory_stats'.total_allocations
       /\ Len(allocation_history) = memory_stats.total_allocations
       /\ IF CallStep("allocate") /\ last'.ret_id # NoneId
          THEN /\ Len(allocation_history') = Len(allocation_history) + 1
               /\ SubSeq(allocation_history', 1, Len(allocation_history))
                     = allocation_history
               /\ allocation_history'[Len(allocation_history')].block_id
                     = last'.ret_id
          ELSE allocation_history' = allocation_history]_vars

\* C22 witness: a garbage collection reclaimed a block and the ledger still
\* holds the records of two allocations
LedgerWitness ==
    /\ last.op = "gc" /\ last.ret_count >= 1
    /\ Len(allocation_history) >= 2
    /\ memory_stats.total_deallocations >= 1

\* C23: after _update_memory_stats(used, total) the pressure is 0.9 when
\* used/total > 0.9, 0.7 when 0.7 < used/total <= 0.9 and used/total
\* otherwise; it lies within [0, 0.9], a ratio that is not smaller than the
\* one of the call before does not give a smaller pressure, and equal
\* ratios give equal pressures
SteppedPressure ==
    [][probe'.fn = "pressure" =>
         LET used == probe'.args[1]
             tot  == probe'.args[2]
             p    == memory_pressure'
         IN /\ p = probe'.vals
            /\ 10 * used > 9 * tot => RatEq(p, <<9, 10>>)
            /\ (10 * used > 7 * tot /\ 10 * used <= 9 * tot) => RatEq(p, <<7, 10>>)
            /\ 10 * used <= 7 * tot => RatEq(p, <<used, tot>>)
            /\ ~RatGT(<<0, 1>>, p) /\ ~RatGT(p, <<9, 10>>)
            /\ probe.fn = "pressure" =>
                  /\ ~RatGT(probe.args, probe'.args) => ~RatGT(memory_pressure, p)
                  /\ RatEq(probe.args, probe'.args) => RatEq(memory_pressure, p)]_vars

\* C23 witness: a ratio on the plateau (0.8 = 8/10) was fed and the pressure
\* stored is 0.7
PressureWitness ==
    /\ probe.fn = "pressure" /\ probe.args = <<8, 10>>
    /\ memory_pressure = <<7, 10>>

\* C24: when the ratio just fed into _update_memory_stats is greater than
\* 0.7, the stored memory_pressure exceeds gc_threshold, a garbage_collect
\* call made now invokes the defragmenter and a get_memory_analytics call
\* made now recommends 'Run GC'
RatioAboveThresholdTriggers ==
    (last.op = "stats" /\ RatGT(<<last.size, total_mb>>, <<7, 10>>)) =>
        /\ RatGT(memory_pressure, gc_threshold)
        /\ GarbageCollectOp(Manager, memory_pressure, last_gc_time, now).invoked
        /\ GetMemoryAnalyticsOp(Manager, memory_pressure).ret.gc_recommendation
              = "Run GC"

\* the uids of the blocks of a list, in list order
Uids(seq) == [i \in DOMAIN seq |-> seq[i].uid]

\* C25: one garbage_collect cycle handles every block that was allocated at
\* its start exactly once, in every pool: the allocated list of each class
\* becomes the list of its blocks that are not idle for longer than the
\* timeout, in their order, the expired ones are appended to the free list
\* in their order, and each expired block is counted once in
\* collected_blocks, used_blocks and total_deallocations
ScanIndependent ==
    [][(CallStep("gc") /\ ~last'.defrag_invoked) =>
         /\ ~last'.raised
         /\ last'.ret_count = IdleCount(memory_pools, now)
         /\ memory_stats'.total_deallocations =
               memory_stats.total_deallocations + IdleCount(memory_pools, now)
         /\ \A c \in PoolSizeSet :
              LET Kept(b) == ~(now - b.last_access > timeout(c))
                  Idle(b) == now - b.last_access > timeout(c)
                  old == memory_pools[c]
                  new == memory_pools'[c]
              IN /\ new.allocated = SelectSeq(old.allocated, Kept)
                 /\ Uids(new.available) =
                       Uids(old.available) \o Uids(SelectSeq(old.allocated, Idle))
                 /\ new.used_blocks =
                       old.used_blocks - Len(SelectSeq(old.allocated, Idle))]_vars

\* C25 witness: one cycle reclaimed two blocks that were neighbours in the
\* allocated list of one class (they are the last two free blocks of the
\* class, in the order they were allocated in) and kept a younger block
\* allocated
ScanIndependentWitness ==
    /\ last.op = "gc" /\ last.ret_count = 2
    /\ memory_stats.total_deallocations = 2
    /\ \E c \in PoolSizeSet :
          LET free == memory_pools[c].available
              n == Len(free)
          IN n >= 2 /\ free[n - 1].uid[2] > free[n].uid[2]
    /\ \E c \in PoolSizeSet : \E b \in Elems(memory_pools[c].allocated) :
          now - b.last_access <= timeout(c)

\* C26: total_blocks of every pool keeps the value it was created with, and
\* every block of the pool of class c, free or allocated, is a block that
\* was created in class c and has size c
ClassImmutable ==
    \A c \in DOMAIN memory_pools :
        /\ memory_pools[c].total_blocks = block_count(c)
        /\ \A b \in PoolBlocks(memory_pools, c) :
              b.size = c /\ b.uid[1] = c /\ b.id[1] = c

\* C26 witness: a request of 1 KB was served by a block of the 2 KB class
\* and a garbage collection gave the block back: it is free in the 2 KB
\* class again and its size is still 2
ClassImmutableWitness ==
    /\ last.op = "gc" /\ last.ret_count >= 1
    /\ memory_pools[2].allocated = <<>>
    /\ \E i \in DOMAIN allocation_history :
          /\ allocation_history[i].size = 1
          /\ allocation_history[i].block_id[1] = 2
          /\ \E b \in Elems(memory_pools[2].available) :
                b.id = allocation_history[i].block_id /\ b.size = 2

\* the sum of the counts of a set of <<size_range, count>> pairs
RECURSIVE SumCounts(_)
SumCounts(patterns) ==
    IF patterns = {} THEN 0
    ELSE LET p == CHOOSE x \in patterns : TRUE
         IN p[2] + SumCounts(patterns \ {p})

\* C27: the histogram of get_memory_analytics counts each of the last 100
\* ledger records in one bucket; a bucket is 1 KB wide and starts at the
\* whole KB of the requested size, so records of different whole-KB sizes
\* are in different buckets, and the counts sum to min(len(ledger), 100)
HistogramPerKB ==
    [][CallStep("analytics") =>
         LET recent == LastN(allocation_history, 100)
             sizes == {recent[i].size : i \in DOMAIN recent}
             patterns == last'.report.allocation_patterns
         IN /\ SumCounts(patterns) = Len(recent)
            /\ \A p \in patterns : p[1][2] - p[1][1] = 1
            /\ {p[1][1] : p \in patterns} = sizes
            /\ Cardinality(patterns) = Cardinality(sizes)]_vars

\* the sum of a sequence of integers
SumInts(seq) ==
    LET upto[i \in 0..Len(seq)] == IF i = 0 THEN 0 ELSE upto[i - 1] + seq[i]
    IN upto[Len(seq)]

\* num / den rounded to the nearest integer, for den > 0
Rounded(num, den) ==
    IF num >= 0 THEN (2 * num + den) \div (2 * den)
    ELSE -((2 * (-num) + den) \div (2 * den))

\* the lookaheads a projection may use
Lookaheads == 0..10

\* last + (last - first) / window * lookahead over the window `w`, scaled
\* by `scale` and rounded; with or without the clamp to [0, 100 * scale]
Projections(w, scale) ==
    LET n == Len(w)
        raw(la) == Rounded(scale * (n * w[n] + (w[n] - w[1]) * la), n)
        clamp(x) == IF x < 0 THEN 0 ELSE IF x > 100 * scale THEN 100 * scale ELSE x
    IN {raw(la) : la \in Lookaheads} \cup {clamp(raw(la)) : la \in Lookaheads}

\* C28: the predicted usage an analytics call reports is the linear
\* projection last + (last - first) / window * lookahead over its recent
\* window of samples, for some lookahead, clamped to [0, 100] when it is a
\* percentage
LinearProjection ==
    /\ probe.fn = "prediction" =>
          probe.vals[1] \in Projections(LastN(probe.args, 10), 1)
    /\ (probe.fn = "cpu_prediction" /\ probe.vals[2] = 0) =>
          /\ probe.vals[1] \in Projections(LastN(probe.args, 10), 10)
          /\ probe.vals[1] >= 0 /\ probe.vals[1] <= 1000

\* C28 amended: get_cpu_analytics reports the projection
\* last + (last - first) / 10 * 5 over its last 10 usages clamped to
\* [0, 100] (and raises below 10 samples); get_memory_analytics reports 1.2
\* times the mean of the last 10 requested sizes, in KB and not clamped,
\* when the ledger holds more than 10 records, and 0 otherwise
PredictionFormulas ==
    /\ probe.fn = "prediction" =>
          LET p == probe.vals[1]
              total == SumInts(LastN(probe.args, 10))
          IN IF Len(probe.args) > 10
             THEN 100 * p <= 12 * total + 50 /\ 12 * total + 50 < 100 * (p + 1)
             ELSE p = 0
    /\ probe.fn = "cpu_prediction" =>
          LET w == LastN(probe.args, 10)
              x == 10 * w[Len(w)] + 5 * (w[Len(w)] - w[1])
          IN IF Len(probe.args) < 10 THEN probe.vals[2] = 1
             ELSE /\ probe.vals[2] = 0
                  /\ probe.vals[1] = (IF x < 0 THEN 0 ELSE IF x > 1000 THEN 1000 ELSE x)

\* C28 witness: a ledger of 11 requests of 512 KB gives the prediction
\* 614 KB, which is no projection of a constant window and above 100
PredictionWitness ==
    /\ probe.fn = "prediction" /\ Len(probe.args) = 11
    /\ \A i \in DOMAIN probe.args : i >= 2 => probe.args[i] \in {2, 512}
    /\ probe.args[2] = 512 /\ probe.args[11] = 512
    /\ probe.vals[1] > 100

\* C29: get_memory_analytics reports the trend 'Increasing' exactly when
\* current_fragmentation is at least the manager's fragmentation_threshold
\* ('Stable' otherwise) and the recommendation 'Run GC' exactly when
\* memory_pressure exceeds the manager's gc_threshold ('OK' otherwise),
\* whatever values the two attributes were given
ConfiguredThresholds ==
    probe.fn = "recommendation" =>
        LET fragmentation == probe.args[1]
            pressure == probe.args[2]
            fragmentation_threshold == probe.args[3]
            threshold == probe.args[4]
        IN /\ probe.vals[1] = (IF fragmentation >= fragmentation_threshold
                               THEN "Increasing" ELSE "Stable")
           /\ probe.vals[2] = (IF RatGT(pressure, threshold)
                               THEN "Run GC" ELSE "OK")

\* C30: the monitoring thread reads monitoring_active only at the test
\* between two cycles: it ends only there and only when the flag is False,
\* a cycle that has started runs statement by statement to its end or to
\* its exception handler whatever the flag is, after an exception the
\* thread is back at the test and starts the next cycle while the flag is
\* True, and once the flag is False the thread ends
CleanStop ==
    /\ [][/\ (monitor'.pc = "done" /\ monitor.pc # "done") =>
              (monitor.pc = "check" /\ ~monitor.monitoring_active)
          /\ (monitor.pc = "check" /\ monitor.monitoring_active) =>
              monitor'.pc \in {"check", "sample"}
          /\ (monitor.pc \in InCycle /\ monitor'.pc # monitor.pc) =>
              monitor'.pc \in {NextInCycle(monitor.pc), "except_sleep"}
          /\ (monitor.pc = "except_sleep" /\ monitor'.pc # monitor.pc) =>
              monitor'.pc = "check"]_vars
    /\ (~monitor.monitoring_active ~> monitor.pc = "done")

\* C30 witness: the flag was set to False while the thread was appending
\* its sample; the cycle ran to its end without an exception and the
\* thread has ended
CleanStopWitness ==
    /\ monitor.pc = "done" /\ monitor.stop_pc = "append"
    /\ monitor.finished /\ ~monitor.raised
    /\ monitor.usage_history >= 1

\* the sum of used_blocks over all pools
UsedBlocks(pools) ==
    LET upto[k \in 0..NumPools(pools)] ==
          IF k = 0 THEN 0 ELSE pools[pool_sizes[k]].used_blocks + upto[k - 1]
    IN upto[NumPools(pools)]

\* C31: with a single caller, used_blocks of every pool equals the length
\* of its allocated list, the memory map reports used_blocks + free_blocks
\* = total_blocks with 0 <= used_blocks <= total_blocks for every class,
\* total_allocations - total_deallocations is the sum of used_blocks, and
\* neither total counter ever decreases
CountersConsistent ==
    [][/\ \A c \in PoolSizeSet :
             memory_pools'[c].used_blocks = Len(memory_pools'[c].allocated)
       /\ \A e \in MemoryMap(memory_pools') :
             /\ e.used_blocks + e.free_blocks = e.total_blocks
             /\ 0 <= e.used_blocks /\ e.used_blocks <= e.total_blocks
       /\ {e.pool : e \in MemoryMap(memory_pools')} = PoolSizeSet
       /\ memory_stats'.total_allocations - memory_stats'.total_deallocations
             = UsedBlocks(memory_pools')
       /\ memory_stats'.total_allocations >= memory_stats.total_allocations
       /\ memory_stats'.total_deallocations >= memory_stats.total_deallocations]_vars

\* C31 witness: after allocations, a deallocation by the caller and a
\* reclaim by garbage_collect, a pool still has a block in use
CountersWitness ==
    /\ last.op = "gc" /\ last.ret_count >= 1
    /\ memory_stats.total_deallocations >= 2
    /\ UsedBlocks(memory_pools) >= 1

DefragUnreachable ==
    [][/\ ~RatGT(memory_pressure', <<1, 2>>)
       /\ RatGT(gc_threshold, <<1, 2>>)
       /\ CallStep("gc") =>
             /\ ~last'.defrag_invoked
             /\ ~last'.ret_bool
             /\ memory_pressure' = memory_pressure
       /\ CallStep("analytics") =>
             last'.report.gc_recommendation = "OK"
       /\ memory_pressure' # memory_pressure => CallStep("info")]_vars

\* C33 witness: garbage_collect ran without defragmentation while more
\* than gc_threshold of the blocks were in use and memory_pressure was at
\* its largest value
DefragUnreachableWitness ==
    /\ last.op = "gc" /\ ~last.ret_bool /\ ~last.defrag_invoked
    /\ memory_pressure = <<8, 16>>
    /\ RatGT(<<UsedBlocks(memory_pools), NumClasses * BlockCount>>, gc_threshold)

\* the last element of a non-empty list
Tail1(s) == s[Len(s)]

\* C34: allocate_memory takes the block at the end of the free list of the
\* class it chose and deallocate_memory puts the freed block at the end, so
\* an allocation served by a class right after a deallocation in that class
\* returns the block just freed, with the same id; and the allocated list
\* of every class is ordered by non-decreasing allocation time
LifoReuse ==
    [][/\ (CallStep("allocate") /\ last'.ret_id # NoneId) =>
             LET c == last'.ret_id[1]
             IN /\ Tail1(memory_pools'[c].allocated).uid
                      = Tail1(memory_pools[c].available).uid
                /\ memory_pools'[c].available
                      = SubSeq(memory_pools[c].available, 1,
                               Len(memory_pools[c].available) - 1)
                /\ (last.op = "deallocate" /\ last.ret_bool
                      /\ last.block_id[1] = c) =>
                        /\ last'.ret_id = last.block_id
                        /\ Tail1(memory_pools[c].available).id = last.block_id
       /\ (CallStep("deallocate") /\ last'.ret_bool) =>
             LET c == last'.block_id[1]
             IN /\ Tail1(memory_pools'[c].available).id = last'.block_id
                /\ SubSeq(memory_pools'[c].available, 1,
                          Len(memory_pools[c].available))
                      = memory_pools[c].available
       /\ \A c \in PoolSizeSet :
             \A i, j \in 1..Len(memory_pools'[c].allocated) :
                i < j => memory_pools'[c].allocated[i].allocated_at
                           <= memory_pools'[c].allocated[j].allocated_at]_vars

\* C34 witness: with one deallocation made, the last allocation of a class
\* took the block freed before it, not the free block created before it:
\* the allocated list holds the first block of the class before the second
LifoReuseWitness ==
    /\ last.op = "allocate" /\ last.ret_id # NoneId
    /\ memory_stats.total_deallocations = 1
    /\ memory_stats.total_allocations = 3
    /\ LET a == memory_pools[last.ret_id[1]].allocated
       IN /\ Len(a) = 2
          /\ a[1].uid[2] < a[2].uid[2]
          /\ a[1].allocated_at < a[2].allocated_at

\* C35: a deallocate_memory(id) call that returns True moves exactly one
\* block from allocated to available, in exactly one pool, and that block
\* carries the id; of several allocated blocks with the id it is the one
\* allocated earliest, the others stay allocated; the other pools and the
\* ledger are unchanged
FreesExactlyOne ==
    [][(CallStep("deallocate") /\ last'.ret_bool) =>
         \E c \in PoolSizeSet :
            LET before == memory_pools[c].allocated
                after  == memory_pools'[c].allocated
            IN /\ \E i \in 1..Len(before) :
                    /\ before[i].id = last'.block_id
                    /\ \A j \in 1..Len(before) :
                          before[j].id = last'.block_id =>
                            /\ i <= j
                            /\ before[i].allocated_at <= before[j].allocated_at
                    /\ after = RemoveAt(before, i)
                    /\ Len(memory_pools'[c].available)
                          = Len(memory_pools[c].available) + 1
                    /\ {b.uid : b \in Elems(memory_pools'[c].available)}
                          = {b.uid : b \in Elems(memory_pools[c].available)}
                              \cup {before[i].uid}
               /\ \A d \in PoolSizeSet \ {c} : memory_pools'[d] = memory_pools[d]
               /\ allocation_history' = allocation_history]_vars

\* C35 witness: a deallocation returned True and another block carrying
\* the same id, allocated at a later time, is still allocated
FreesExactlyOneWitness ==
    /\ last.op = "deallocate" /\ last.ret_bool
    /\ \E c \in PoolSizeSet : \E b \in Elems(memory_pools[c].allocated) :
         b.id = last.block_id /\ b.allocated_at > 0

\* C36: with two threads calling allocate_memory and deallocate_memory with
\* no lock, whenever no call is in progress every pool has len(available) +
\* len(allocated) = total_blocks and used_blocks = len(allocated), every
\* block object is in exactly one of the two lists, and no call has ended
\* in an exception
PoolInvariantsUnderRace ==
    InFlight = {} =>
      /\ \A c \in PoolSizeSet :
            /\ Len(memory_pools[c].available) + Len(memory_pools[c].allocated)
                  = memory_pools[c].total_blocks
            /\ memory_pools[c].used_blocks = Len(memory_pools[c].allocated)
            /\ \A k \in 1..block_count(c) :
                  Occurrences(memory_pools[c].available, <<c, k>>)
                    + Occurrences(memory_pools[c].allocated, <<c, k>>) = 1
      /\ \A t \in Threads : ~threads[t].raised

\* C37: after every _update_power_management(usage, temperature) call,
\* thermal_throttling is True exactly when current_state is 'throttled',
\* and current_state is 'throttled' exactly when the temperature passed was
\* above 80, 'warm' when it was above 70 and at most 80, 'active' otherwise
PowerStateConsistent ==
    [][(monitor.pc = "power" /\ monitor'.pc = NextInCycle("power")) =>
         LET temperature == monitor.current_temp
             ps == monitor'.power_states
         IN /\ ps.thermal_throttling <=> ps.current_state = "throttled"
            /\ ps.current_state = "throttled" <=> temperature > 80
            /\ ps.current_state = "warm" <=>
                  (temperature > 70 /\ temperature <= 80)
            /\ ps.current_state = "active" <=> temperature <= 70]_vars

====
